---- MODULE Spec2Model ----
(***************************************************************************)
(* Reversible coordination substrate of ReAgent: the MessagePool           *)
(* (Interaction/messagepool.py), the Environment message bus and global    *)
(* coordinator (Environment/environment.py) and the participants           *)
(* (Agent/agent.py).                                                       *)
(*                                                                         *)
(* Python values are modelled by value: copy.deepcopy is a value copy, a   *)
(* list is a sequence, a dict is a function.  A str is kept apart from a   *)
(* list by a leading tag: Str(x) is the str x, Lst(s) the list s.          *)
(***************************************************************************)
EXTENDS Integers, Sequences, FiniteSets, TLC

VARIABLES
    people,                   \* Environment.people: the registered names, in order
    agents,                   \* name -> the agent object's fields
    message_pool,             \* Environment.message_pool: [messages, history_snapshots]
    current_time,             \* Environment.current_time
    global_history,           \* Environment.global_history: time -> bundle
    global_conflict_raised,   \* Environment.global_conflict_raised
    conflict_details,         \* Environment.conflict_details
    clock,                    \* source of Message.timestamp / Message.msg_id
    last,                     \* the call that produced this state
    delivered,                \* receive_message calls made during that call, in order
    returned,                 \* what that call returned, for a query
    called_at,                \* live sequence at the moment snapshot_state(T) was called
    iterations,               \* iteration_count of run_until_stable when it returned
    trust_graph,              \* GroupChatEnvironment.trust_graph, scores in thousandths
    discussion_history,       \* GroupChatEnvironment.discussion_history
    marked,                   \* per agent, its local state at each checkpoint_state call
                              \* that no local_backtrack has taken back yet
    captured                  \* the system at the moment the bundle at T was taken

envvars == <<people, agents, current_time, global_history,
             global_conflict_raised, conflict_details, captured, iterations,
             marked, trust_graph, discussion_history>>

vars == <<people, agents, message_pool, current_time, global_history,
          global_conflict_raised, conflict_details, clock, last, delivered,
          returned, called_at, captured, iterations, marked, trust_graph,
          discussion_history>>

----------------------------------------------------------------------------
(* Bounds *)

PoolSends == 3     \* Messages appended to a MessagePool on its own
MaxSends == 2      \* send_message calls started on an Environment
RoleSends == 4     \* Messages created before the last message sent to a role agent
MaxIndex == 2      \* largest time index handed to the MessagePool
MaxTime  == 2      \* largest current_time of the Environment
MaxStack == 1      \* deepest backtrack stack
MaxSteps == 3      \* largest current_time reached by time steps alone
MaxIterations == 2 \* largest max_iterations handed to run_until_stable
MaxDepth == 2      \* deepest backtrack stack built by checkpoint_state calls alone
MaxFacts == 2      \* most entries put into one local state from outside
MaxRatings == 1    \* most update_trust_score calls made among other calls
MaxRounds == 2     \* most summaries in a discussion_history

TimeIndices == 0..MaxIndex

----------------------------------------------------------------------------
(* Python values *)

\* A str is <<"str", token, ...>>, a list <<"list", item, ...>>, a dict
\* <<"dict", <<key, value>>, ...>>, None <<"none">>: the leading tag keeps
\* values of different Python types apart.
Str(x)  == <<"str", x>>
Lst(s)  == <<"list">> \o s
Dict(s) == <<"dict">> \o s
None    == <<"none">>

IsStr(v)  == v[1] = "str"
IsList(v) == v[1] = "list"
IsDict(v) == v[1] = "dict"
Items(v)  == Tail(v)

ALL == Str("ALL")
all == Str("all")

\* x in v, for a list v
InList(x, v) == \E i \in 1..Len(Items(v)) : Items(v)[i] = x

\* the str "" and the list []
EmptyStr  == <<"str">>
EmptyList == <<"list">>

\* bool(v), for None, a str, a list or a dict
Truthy(v) == v # None /\ Len(v) > 1

\* hash(v) succeeds: a list and a dict are unhashable
Hashable(v) == ~IsList(v) /\ ~IsDict(v)

\* k in d and d.get(k, default), for a dict d
HasKey(d, k) == \E i \in 2..Len(d) : d[i][1] = k
Get(d, k, default) ==
    IF HasKey(d, k) THEN d[CHOOSE i \in 2..Len(d) : d[i][1] = k][2] ELSE default

\* the text of str(v): of a str itself, of another value one opaque token
Text(v) == IF IsStr(v) THEN Items(v) ELSE <<"<repr>">>

\* f"{prefix}{v}"
FStr(prefix, v) == <<"str", prefix>> \o Text(v)

\* list(v), the items iterating v yields: of a list its items, of a str
\* its characters, of a dict its keys
RECURSIVE Chars(_)
Chars(tokens) == IF tokens = <<>> THEN <<>> ELSE <<Str(Head(tokens))>> \o Chars(Tail(tokens))
RECURSIVE Keys(_)
Keys(pairs) == IF pairs = <<>> THEN <<>> ELSE <<Str(Head(pairs)[1])>> \o Keys(Tail(pairs))
Iterate(v) ==
    IF IsList(v) THEN Items(v)
    ELSE IF IsStr(v) THEN Chars(Items(v))
    ELSE Keys(Items(v))

\* sep.join(items), for str items
RECURSIVE Join(_, _)
Join(sep, items) ==
    IF items = <<>> THEN <<>>
    ELSE IF Len(items) = 1 THEN Text(items[1])
    ELSE Text(items[1]) \o <<sep>> \o Join(sep, Tail(items))

\* len(set(s)) < len(s)
Repeats(s) == \E i, j \in 1..Len(s) : i < j /\ s[i] = s[j]

\* {k: d[k] for k in keys}
Restrict(d, keys) == [k \in keys |-> d[k]]

\* d[k] = v on a dict keyed by time index or name
Put(d, k, v) == [x \in DOMAIN d \cup {k} |-> IF x = k THEN v ELSE d[x]]

----------------------------------------------------------------------------
(* Interaction/message.py *)

Message(content, send_from, send_to, now) ==
    [content |-> content, send_from |-> send_from, send_to |-> send_to,
     timestamp |-> now, msg_id |-> now]

----------------------------------------------------------------------------
(* Interaction/messagepool.py *)

MessagePool == [messages |-> <<>>, history_snapshots |-> <<>>]

\* as update_message, with the stored snapshots sharing the live list
update_message_aliased(pool, msg) ==
    [pool EXCEPT !.messages = Append(@, msg),
                 !.history_snapshots =
                     [k \in DOMAIN @ |-> IF @[k] = pool.messages THEN Append(@[k], msg) ELSE @[k]]]

\* as update_message, putting the message in front
update_message_prepending(pool, msg) ==
    [pool EXCEPT !.messages = <<msg>> \o @]

update_message(pool, msg) ==
    [pool EXCEPT !.messages = Append(@, msg)]

\* as get_visibile_messages, without the clause for broadcasts
get_visibile_messages_addressed(pool, visibile) ==
    IF visibile = all
    THEN pool.messages
    ELSE LET Sees(m) == IF IsList(m.send_to)
                        THEN InList(visibile, m.send_to)
                        ELSE m.send_to = visibile
         IN  SelectSeq(pool.messages, Sees)

\* as get_visibile_messages, comparing a list send_to like a name
get_visibile_messages_scalar(pool, visibile) ==
    IF visibile = all
    THEN pool.messages
    ELSE LET Sees(m) == m.send_to = ALL \/ m.send_to = visibile
         IN  SelectSeq(pool.messages, Sees)

get_visibile_messages(pool, visibile) ==
    IF visibile = all
    THEN pool.messages
    ELSE LET Sees(m) == \/ m.send_to = ALL
                        \/ IF IsList(m.send_to)
                           THEN InList(visibile, m.send_to)
                           ELSE m.send_to = visibile
         IN  SelectSeq(pool.messages, Sees)

get_ones_messages(pool, name) ==
    IF name = all
    THEN pool.messages
    ELSE LET From(m) == m.send_from = name \/ m.send_from = all
         IN  SelectSeq(pool.messages, From)

snapshot_state(pool, time_index) ==
    [pool EXCEPT !.history_snapshots = Put(@, time_index, pool.messages)]

\* as revert_state, extending the live list instead of replacing it
revert_state_extend(pool, time_index) ==
    IF time_index \in DOMAIN pool.history_snapshots
    THEN [pool EXCEPT !.messages = @ \o pool.history_snapshots[time_index]]
    ELSE pool

revert_state(pool, time_index) ==
    IF time_index \in DOMAIN pool.history_snapshots
    THEN [pool EXCEPT !.messages = pool.history_snapshots[time_index]]
    ELSE pool

\* as prune_snapshots_after, removing the snapshot at time_index as well
prune_snapshots_after_from(pool, time_index) ==
    LET keys_to_remove == {k \in DOMAIN pool.history_snapshots : k >= time_index}
    IN  [pool EXCEPT !.history_snapshots =
             Restrict(@, DOMAIN pool.history_snapshots \ keys_to_remove)]

prune_snapshots_after(pool, time_index) ==
    LET keys_to_remove == {k \in DOMAIN pool.history_snapshots : k > time_index}
    IN  [pool EXCEPT !.history_snapshots =
             Restrict(@, DOMAIN pool.history_snapshots \ keys_to_remove)]

clear_pool(pool) ==
    [pool EXCEPT !.messages = <<>>, !.history_snapshots = <<>>]

----------------------------------------------------------------------------
(* Agent/agent.py: BaseAgent *)

\* The fields of an agent object.  partial_answers exists on an
\* AnswerAssemblerAgent and intervention_count on a ControllerAgent only;
\* on the other classes they stay at their initial value.
BaseAgent(cls) ==
    [cls |-> cls,
     local_state |-> [verified_facts |-> <<>>, history |-> <<>>, backtrack_stack |-> <<>>],
     partial_answers |-> <<>>,
     intervention_count |-> 0]

\* as checkpoint_state, pushing a copy without the stack it holds
checkpoint_state_flat(agent) ==
    LET snapshot == [agent.local_state EXCEPT !.backtrack_stack = <<>>]
    IN  [agent EXCEPT !.local_state.backtrack_stack = Append(@, snapshot)]

checkpoint_state(agent) ==
    LET snapshot == agent.local_state
    IN  [agent EXCEPT !.local_state.backtrack_stack = Append(@, snapshot)]

\* as local_backtrack, popping the stack and keeping the rest of the live state
local_backtrack_merging(agent) ==
    LET stack == agent.local_state.backtrack_stack
    IN  IF stack # <<>>
        THEN [agent EXCEPT !.local_state.backtrack_stack = SubSeq(stack, 1, Len(stack) - 1)]
        ELSE agent

\* as local_backtrack, starting afresh when there is nothing to go back to
local_backtrack_resetting(agent) ==
    LET stack == agent.local_state.backtrack_stack
    IN  IF stack # <<>>
        THEN [agent EXCEPT !.local_state = stack[Len(stack)]]
        ELSE [agent EXCEPT !.local_state =
                  [verified_facts |-> <<>>, history |-> <<>>, backtrack_stack |-> <<>>]]

local_backtrack(agent) ==
    LET stack == agent.local_state.backtrack_stack
    IN  IF stack # <<>>
        THEN [agent EXCEPT !.local_state = stack[Len(stack)]]
        ELSE agent

----------------------------------------------------------------------------
(* Environment/environment.py *)

\* The system a call works on: the Environment's fields, the agents it
\* holds, the clock, the receive_message calls made so far during the
\* call, and the exception the call has raised ("" for none).
Names(s) == {s.people[i] : i \in 1..Len(s.people)}

Environment(people_, classes) ==
    [people |-> people_,
     agents |-> [n \in {people_[i] : i \in 1..Len(people_)} |-> BaseAgent(classes[n])],
     message_pool |-> MessagePool,
     current_time |-> 0,
     global_history |-> <<>>,
     global_conflict_raised |-> FALSE,
     conflict_details |-> None,
     clock |-> 0,
     delivered |-> <<>>,
     iterations |-> 0,
     marked |-> [n \in {people_[i] : i \in 1..Len(people_)} |-> <<>>],
     trust_graph |-> <<>>,
     discussion_history |-> <<>>,
     exc |-> ""]

Envelope(sender, receiver, msg_type, content) ==
    [sender |-> sender, receiver |-> receiver, msg_type |-> msg_type, content |-> content]

\* as raise_conflict, emptying the live messages as well
raise_conflict_clearing(s, details) ==
    [s EXCEPT !.global_conflict_raised = TRUE, !.conflict_details = details,
              !.message_pool.messages = <<>>]

raise_conflict(s, details) ==
    [s EXCEPT !.global_conflict_raised = TRUE, !.conflict_details = details]

checkpoint_environment(s) ==
    LET snapshot == [time |-> s.current_time,
                     message_pool |-> s.message_pool.messages,
                     agents_state |-> [n \in Names(s) |-> s.agents[n].local_state]]
    IN  [s EXCEPT !.global_history = Put(@, s.current_time, snapshot)]

\* as revert_environment, keeping the later bundles
revert_environment_keeps(s, target_time) ==
    IF target_time \notin DOMAIN s.global_history
    THEN s
    ELSE LET snapshot == s.global_history[target_time]
         IN  [s EXCEPT
                !.message_pool.messages = snapshot.message_pool,
                !.agents = [n \in DOMAIN @ |->
                              IF n \in Names(s) /\ n \in DOMAIN snapshot.agents_state
                              THEN [@[n] EXCEPT !.local_state = snapshot.agents_state[n]]
                              ELSE @[n]],
                !.current_time = target_time]

\* as revert_environment, moving current_time before looking for the bundle
revert_environment_eager(s, target_time) ==
    IF target_time \notin DOMAIN s.global_history
    THEN [s EXCEPT !.current_time = target_time]
    ELSE LET snapshot == s.global_history[target_time]
         IN  [s EXCEPT
                !.message_pool.messages = snapshot.message_pool,
                !.agents = [n \in DOMAIN @ |->
                              IF n \in Names(s) /\ n \in DOMAIN snapshot.agents_state
                              THEN [@[n] EXCEPT !.local_state = snapshot.agents_state[n]]
                              ELSE @[n]],
                !.current_time = target_time,
                !.global_history =
                    Restrict(@, {k \in DOMAIN @ : ~(k > target_time)})]

\* as revert_environment, using up the bundle it reverts to
revert_environment_consuming(s, target_time) ==
    IF target_time \notin DOMAIN s.global_history
    THEN s
    ELSE LET snapshot == s.global_history[target_time]
         IN  [s EXCEPT
                !.message_pool.messages = snapshot.message_pool,
                !.agents = [n \in DOMAIN @ |->
                              IF n \in Names(s) /\ n \in DOMAIN snapshot.agents_state
                              THEN [@[n] EXCEPT !.local_state = snapshot.agents_state[n]]
                              ELSE @[n]],
                !.current_time = target_time,
                !.global_history =
                    Restrict(@, {k \in DOMAIN @ : ~(k >= target_time)})]

revert_environment(s, target_time) ==
    IF target_time \notin DOMAIN s.global_history
    THEN s
    ELSE LET snapshot == s.global_history[target_time]
         IN  [s EXCEPT
                !.message_pool.messages = snapshot.message_pool,
                !.agents = [n \in DOMAIN @ |->
                              IF n \in Names(s) /\ n \in DOMAIN snapshot.agents_state
                              THEN [@[n] EXCEPT !.local_state = snapshot.agents_state[n]]
                              ELSE @[n]],
                !.current_time = target_time,
                !.global_history =
                    Restrict(@, {k \in DOMAIN @ : ~(k > target_time)})]

\* the while loop of resolve_conflict, from fallback_time downwards
RECURSIVE fallback_search(_, _)
fallback_search(s, fallback_time) ==
    IF fallback_time >= 0
    THEN IF fallback_time \in DOMAIN s.global_history
         THEN revert_environment(s, fallback_time)
         ELSE fallback_search(s, fallback_time - 1)
    ELSE s

\* as resolve_conflict, reverting to the earliest bundle
resolve_conflict_earliest(s) ==
    LET K  == {k \in DOMAIN s.global_history : k < s.current_time}
        s1 == IF K = {} THEN s
              ELSE revert_environment(s, CHOOSE k \in K : \A j \in K : k <= j)
    IN  [s1 EXCEPT !.global_conflict_raised = FALSE, !.conflict_details = None]

\* as resolve_conflict, searching from current_time itself
resolve_conflict_from_now(s) ==
    LET s1 == fallback_search(s, s.current_time)
    IN  [s1 EXCEPT !.global_conflict_raised = FALSE, !.conflict_details = None]

resolve_conflict(s) ==
    LET s1 == fallback_search(s, s.current_time - 1)
    IN  [s1 EXCEPT !.global_conflict_raised = FALSE, !.conflict_details = None]

RECURSIVE send_message(_, _, _, _, _)
RECURSIVE broadcast_message(_, _, _, _, _)
RECURSIVE deliver_named(_, _, _, _, _, _)
RECURSIVE receive_message(_, _, _)

\* BaseAgent.send_message: through the message bus, when there is one
agent_send_message(s, self, msg_type, receiver, content) ==
    send_message(s, Str(self), receiver, msg_type, content)

Raise(s, e) == [s EXCEPT !.exc = e]

(* QuestionDecomposerAgent *)
\* as decompose_question, without the sub-question on contradictions
decompose_question_pair(question) ==
    <<FStr("Extract key entities from: ", question),
      FStr("Retrieve relevant documents or knowledge for: ", question)>>

decompose_question(question) ==
    <<FStr("Extract key entities from: ", question),
      FStr("Retrieve relevant documents or knowledge for: ", question),
      FStr("Verify potential contradictions in: ", question)>>

\* the loop over sub_questions, from position i
RECURSIVE send_sub_questions(_, _, _, _)
send_sub_questions(s, self, sub_questions, i) ==
    IF i > Len(sub_questions) \/ s.exc # ""
    THEN s
    ELSE send_sub_questions(
             agent_send_message(s, self, "ASSERT", Str("RetrieverAgent"),
                                Dict(<< <<"sub_question", sub_questions[i]>> >>)),
             self, sub_questions, i + 1)

QuestionDecomposerAgent_receive_message(s, self, msg) ==
    IF msg.msg_type = "INFORM" /\ IsStr(msg.content)
    THEN send_sub_questions(s, self, decompose_question(msg.content), 1)
    ELSE s

(* RetrieverAgent *)
retrieve_evidence(sub_question) ==
    Lst(<<FStr("Sample evidence for: ", sub_question)>>)

RetrieverAgent_receive_message(s, self, msg) ==
    IF msg.msg_type = "ASSERT"
    THEN LET content == msg.content
         IN  IF ~IsDict(content)
             THEN Raise(s, "AttributeError")
             ELSE LET sub_q == Get(content, "sub_question", None)
                  IN  IF Truthy(sub_q)
                      THEN agent_send_message(s, self, "INFORM", Str("VerifierAgent"),
                               Dict(<< <<"evidence_list", retrieve_evidence(sub_q)>>,
                                       <<"sub_question", sub_q>> >>))
                      ELSE s
    ELSE s

(* VerifierAgent *)
ConflictText == Str("VerifierAgent detected repeated or contradictory evidence.")

\* verify: the conflict description, "" for none, or the exception raised
verify(agent, evidence_list) ==
    IF ~IsList(evidence_list)
    THEN [exc |-> "TypeError", value |-> EmptyStr]
    ELSE LET combined == agent.local_state.verified_facts \o Items(evidence_list)
         IN  IF \E i \in 1..Len(combined) : ~Hashable(combined[i])
             THEN [exc |-> "TypeError", value |-> EmptyStr]
             ELSE IF Repeats(combined)
                  THEN [exc |-> "", value |-> ConflictText]
                  ELSE [exc |-> "", value |-> EmptyStr]

\* as VerifierAgent.receive_message, raising the conflict without going
\* back to the checkpoint it has just taken
VerifierAgent_receive_message_keeping(s, self, msg) ==
    IF msg.msg_type = "INFORM"
    THEN LET content == msg.content
         IN  IF ~IsDict(content)
             THEN Raise(s, "AttributeError")
             ELSE LET evidence_list == Get(content, "evidence_list", EmptyList)
                      s1 == [s EXCEPT !.agents[self] = checkpoint_state(@)]
                      conflict_detail == verify(s1.agents[self], evidence_list)
                  IN  IF conflict_detail.exc # ""
                      THEN Raise(s1, conflict_detail.exc)
                      ELSE IF Truthy(conflict_detail.value)
                      THEN agent_send_message(s1, self, "CONFLICT", Str("SupervisorAgent"),
                               Dict(<< <<"conflict_detail", conflict_detail.value>> >>))
                      ELSE agent_send_message(
                               [s1 EXCEPT !.agents[self].local_state.verified_facts =
                                              @ \o Items(evidence_list)],
                               self, "ASSERT", Str("AnswerAssemblerAgent"),
                               Dict(<< <<"verified_facts", evidence_list>> >>))
    ELSE s

VerifierAgent_receive_message(s, self, msg) ==
    IF msg.msg_type = "INFORM"
    THEN LET content == msg.content
         IN  IF ~IsDict(content)
             THEN Raise(s, "AttributeError")
             ELSE LET evidence_list == Get(content, "evidence_list", EmptyList)
                      s1 == [s EXCEPT !.agents[self] = checkpoint_state(@)]
                      conflict_detail == verify(s1.agents[self], evidence_list)
                  IN  IF conflict_detail.exc # ""
                      THEN Raise(s1, conflict_detail.exc)
                      ELSE IF Truthy(conflict_detail.value)
                      THEN agent_send_message(
                               [s1 EXCEPT !.agents[self] = local_backtrack(@)],
                               self, "CONFLICT", Str("SupervisorAgent"),
                               Dict(<< <<"conflict_detail", conflict_detail.value>> >>))
                      ELSE agent_send_message(
                               [s1 EXCEPT !.agents[self].local_state.verified_facts =
                                              @ \o Items(evidence_list)],
                               self, "ASSERT", Str("AnswerAssemblerAgent"),
                               Dict(<< <<"verified_facts", evidence_list>> >>))
    ELSE s

(* AnswerAssemblerAgent *)
ReadyThreshold == 3

ready_for_final(agent) == Len(agent.partial_answers) >= ReadyThreshold

assemble_answer(agent) ==
    <<"str", "Integrated Answer: ">> \o Join("; ", agent.partial_answers)

AnswerAssemblerAgent_receive_message(s, self, msg) ==
    IF msg.msg_type = "ASSERT"
    THEN LET content == msg.content
         IN  IF ~IsDict(content)
             THEN Raise(s, "AttributeError")
             ELSE LET new_facts == Get(content, "verified_facts", EmptyList)
                  IN  IF new_facts = None
                      THEN Raise(s, "TypeError")
                      ELSE LET s1 == [s EXCEPT !.agents[self].partial_answers =
                                                   @ \o Iterate(new_facts)]
                           IN  IF ready_for_final(s1.agents[self])
                               THEN IF \E i \in 1..Len(s1.agents[self].partial_answers) :
                                           ~IsStr(s1.agents[self].partial_answers[i])
                                    THEN Raise(s1, "TypeError")
                                    ELSE agent_send_message(s1, self, "INFORM",
                                             Str("SupervisorAgent"),
                                             Dict(<< <<"final_answer",
                                                       assemble_answer(s1.agents[self])>> >>))
                               ELSE s1
    ELSE s

(* SupervisorAgent *)
\* "final_answer" in content: a key of a dict, an item of a list, a
\* substring of a str
Contains(content, key) ==
    IF IsDict(content) THEN HasKey(content, key)
    ELSE IF IsList(content) THEN InList(Str(key), content)
    ELSE \E i \in 1..Len(Items(content)) : Items(content)[i] = key

SupervisorAgent_receive_message(s, self, msg) ==
    LET msg_type == msg.msg_type
        content  == msg.content
    IN  IF msg_type = "CONFLICT"
        THEN IF ~IsDict(content)
             THEN Raise(s, "AttributeError")
             ELSE LET reason == Get(content, "conflict_detail", EmptyStr)
                  IN  agent_send_message(s, self, "BACKTRACK", ALL,
                                         Dict(<< <<"reason", reason>> >>))
        ELSE IF msg_type = "INFORM"
        THEN IF content = None
             THEN Raise(s, "TypeError")
             ELSE IF Contains(content, "final_answer") /\ ~IsDict(content)
             THEN Raise(s, "TypeError")
             ELSE s
        ELSE s

(* ControllerAgent *)
InterventionLimit == 2

ControllerAgent_receive_message(s, self, msg) ==
    IF msg.msg_type = "CONFLICT"
    THEN LET s1 == [s EXCEPT !.agents[self].intervention_count = @ + 1]
         IN  IF s1.agents[self].intervention_count > InterventionLimit
             THEN agent_send_message(s1, self, "CHALLENGE", Str("VerifierAgent"),
                      Dict(<< <<"directive", Str("Re-check evidence thoroughly")>> >>))
             ELSE s1
    ELSE s

\* agent.receive_message(msg), by the class of the agent
receive_message(s, self, msg) ==
    LET s1  == [s EXCEPT !.delivered = Append(@, [to |-> self, msg |-> msg])]
        cls == s.agents[self].cls
    IN  CASE cls = "QuestionDecomposerAgent" -> QuestionDecomposerAgent_receive_message(s1, self, msg)
          [] cls = "RetrieverAgent"          -> RetrieverAgent_receive_message(s1, self, msg)
          [] cls = "VerifierAgent"           -> VerifierAgent_receive_message(s1, self, msg)
          [] cls = "AnswerAssemblerAgent"    -> AnswerAssemblerAgent_receive_message(s1, self, msg)
          [] cls = "SupervisorAgent"         -> SupervisorAgent_receive_message(s1, self, msg)
          [] cls = "ControllerAgent"         -> ControllerAgent_receive_message(s1, self, msg)
          [] OTHER                           -> s1

\* as broadcast_message, without the test that leaves the sender out
broadcast_message_everyone(s, i, sender, msg_type, content) ==
    IF i > Len(s.people) \/ s.exc # ""
    THEN s
    ELSE broadcast_message(
             receive_message(s, s.people[i], Envelope(sender, ALL, msg_type, content)),
             i + 1, sender, msg_type, content)

\* the loop of broadcast_message over self.people, from position i
broadcast_message(s, i, sender, msg_type, content) ==
    IF i > Len(s.people) \/ s.exc # ""
    THEN s
    ELSE LET agent == s.people[i]
             s1 == IF Str(agent) # sender
                   THEN receive_message(s, agent, Envelope(sender, ALL, msg_type, content))
                   ELSE s
         IN  broadcast_message(s1, i + 1, sender, msg_type, content)

\* as the loop of send_message, without the test of the agent's name
deliver_named_anyone(s, i, sender, receiver, msg_type, content) ==
    IF i > Len(s.people) \/ s.exc # ""
    THEN s
    ELSE deliver_named(
             receive_message(s, s.people[i], Envelope(sender, receiver, msg_type, content)),
             i + 1, sender, receiver, msg_type, content)

\* the loop of send_message over self.people, from position i
deliver_named(s, i, sender, receiver, msg_type, content) ==
    IF i > Len(s.people) \/ s.exc # ""
    THEN s
    ELSE LET agent == s.people[i]
             s1 == IF Str(agent) = receiver
                   THEN receive_message(s, agent, Envelope(sender, receiver, msg_type, content))
                   ELSE s
         IN  deliver_named(s1, i + 1, sender, receiver, msg_type, content)

\* as send_message, delivering only the outermost message of a call
send_message_queued(s, sender, receiver, msg_type, content) ==
    LET msg == Message(content, sender, receiver, s.clock)
        s1  == [s EXCEPT !.message_pool = update_message(@, msg), !.clock = @ + 1]
    IN  IF s.delivered # <<>>
        THEN s1
        ELSE IF receiver = ALL
        THEN broadcast_message(s1, 1, sender, msg_type, content)
        ELSE deliver_named(s1, 1, sender, receiver, msg_type, content)

\* as send_message, recording the message after its delivery
send_message_late(s, sender, receiver, msg_type, content) ==
    LET msg == Message(content, sender, receiver, s.clock)
        s1  == [s EXCEPT !.clock = @ + 1]
        s2  == IF receiver = ALL
               THEN broadcast_message(s1, 1, sender, msg_type, content)
               ELSE deliver_named(s1, 1, sender, receiver, msg_type, content)
    IN  [s2 EXCEPT !.message_pool = update_message(@, msg)]

\* as send_message, refusing a receiver that no agent is named after
send_message_checked(s, sender, receiver, msg_type, content) ==
    LET msg == Message(content, sender, receiver, s.clock)
        s1  == [s EXCEPT !.message_pool = update_message(@, msg), !.clock = @ + 1]
    IN  IF receiver = ALL
        THEN broadcast_message(s1, 1, sender, msg_type, content)
        ELSE IF \E i \in 1..Len(s.people) : Str(s.people[i]) = receiver
             THEN deliver_named(s1, 1, sender, receiver, msg_type, content)
             ELSE [s1 EXCEPT !.exc = "KeyError"]

send_message(s, sender, receiver, msg_type, content) ==
    LET msg == Message(content, sender, receiver, s.clock)
        s1  == [s EXCEPT !.message_pool = update_message(@, msg), !.clock = @ + 1]
    IN  IF receiver = ALL
        THEN broadcast_message(s1, 1, sender, msg_type, content)
        ELSE deliver_named(s1, 1, sender, receiver, msg_type, content)

\* agent.run_one_step() is a no-op in BaseAgent and is what a subclass
\* extends: act is what the agent's step does with the calls it has.
run_one_step(s, self, act) ==
    CASE act = "pass"       -> s
      [] act = "send"       -> agent_send_message(s, self, "INFORM", ALL, Str("step"))
      [] act = "raise"      -> raise_conflict(s, Str(self))
      [] act = "checkpoint" -> [s EXCEPT !.agents[self] = checkpoint_state(@)]

\* the loop of run_time_step over self.people, from position i
RECURSIVE run_steps(_, _, _)
run_steps(s, i, acts) ==
    IF i > Len(s.people) \/ s.exc # ""
    THEN s
    ELSE run_steps(run_one_step(s, s.people[i], acts[s.people[i]]), i + 1, acts)

\* as run_time_step, taking the checkpoint at the end of the step
run_time_step_late(s, acts) ==
    LET s1 == [s EXCEPT !.current_time = @ + 1]
        s2 == run_steps(s1, 1, acts)
        s3 == checkpoint_environment(s2)
    IN  IF s3.exc = "" /\ s3.global_conflict_raised
        THEN resolve_conflict(s3)
        ELSE s3

\* as run_time_step, taking the checkpoint before the time moves on
run_time_step_early(s, acts) ==
    LET s1 == checkpoint_environment(s)
        s2 == [s1 EXCEPT !.current_time = @ + 1]
        s3 == run_steps(s2, 1, acts)
    IN  IF s3.exc = "" /\ s3.global_conflict_raised
        THEN resolve_conflict(s3)
        ELSE s3

\* as run_time_step, without the conflict check at its end
run_time_step_unresolved(s, acts) ==
    LET s1 == [s EXCEPT !.current_time = @ + 1]
        s2 == checkpoint_environment(s1)
    IN  run_steps(s2, 1, acts)

run_time_step(s, acts) ==
    LET s1 == [s EXCEPT !.current_time = @ + 1]
        s2 == checkpoint_environment(s1)
        s3 == run_steps(s2, 1, acts)
    IN  IF s3.exc = "" /\ s3.global_conflict_raised
        THEN resolve_conflict(s3)
        ELSE s3

\* the while loop of run_until_stable; scripts[i] is what the agents'
\* steps do in the i-th iteration
RECURSIVE iterate(_, _, _)

\* as the while loop, with a break where the code has its pass
iterate_until_settled(s, max_iterations, scripts) ==
    IF s.iterations < max_iterations /\ s.exc = ""
    THEN LET s1 == run_time_step(s, scripts[s.iterations + 1])
             s2 == [s1 EXCEPT !.iterations = @ + 1]
         IN  IF s2.exc = "" /\ ~s2.global_conflict_raised
             THEN s2
             ELSE iterate(s2, max_iterations, scripts)
    ELSE s

iterate(s, max_iterations, scripts) ==
    IF s.iterations < max_iterations /\ s.exc = ""
    THEN LET s1 == run_time_step(s, scripts[s.iterations + 1])
             s2 == [s1 EXCEPT !.iterations = @ + 1]
         IN  iterate(s2, max_iterations, scripts)
    ELSE s

run_until_stable(s, max_iterations, scripts) ==
    iterate([s EXCEPT !.iterations = 0], max_iterations, scripts)

----------------------------------------------------------------------------
(* Environment/groupchat.py *)

\* A trust score is kept in thousandths: 1000 is the score 1.0.  A rating
\* is given in tenths: 45 is the rating 4.5.
TrustOne     == 1000
TrustDefault == 500

\* as _initialize_trust_graph, without the test that leaves an agent's
\* trust in itself out
initialize_trust_graph_total(s) ==
    [agent \in Names(s) |-> [other \in Names(s) |-> TrustDefault]]

\* _initialize_trust_graph
initialize_trust_graph(s) ==
    [agent \in Names(s) |-> [other \in {o \in Names(s) : o # agent} |-> TrustDefault]]

GroupChatEnvironment(people_, classes) ==
    LET s == Environment(people_, classes)
    IN  [s EXCEPT !.trust_graph = initialize_trust_graph(s),
                  !.discussion_history = <<>>]

\* max(a, b) and min(a, b)
max(a, b) == IF a >= b THEN a ELSE b
min(a, b) == IF a <= b THEN a ELSE b

\* as update_trust_score, without the bound
update_trust_score_unbounded(s, evaluator, evaluatee, rating) ==
    IF evaluator \notin DOMAIN s.trust_graph
    THEN Raise(s, "KeyError")
    ELSE LET old_score == IF evaluatee \in DOMAIN s.trust_graph[evaluator]
                          THEN s.trust_graph[evaluator][evaluatee]
                          ELSE TrustDefault
         IN  [s EXCEPT !.trust_graph[evaluator] = Put(@, evaluatee, old_score + (rating - 45))]

\* as update_trust_score, with the shift the comment in the code describes
\* (rating 0 => -0.5, rating 9 => +0.4)
update_trust_score_as_commented(s, evaluator, evaluatee, rating) ==
    IF evaluator \notin DOMAIN s.trust_graph
    THEN Raise(s, "KeyError")
    ELSE LET old_score == IF evaluatee \in DOMAIN s.trust_graph[evaluator]
                          THEN s.trust_graph[evaluator][evaluatee]
                          ELSE TrustDefault
             new_score == old_score + (rating - 50)
         IN  [s EXCEPT !.trust_graph[evaluator] =
                           Put(@, evaluatee, max(0, min(TrustOne, new_score)))]

\* as update_trust_score, writing the score for the pair the other way round too
update_trust_score_mutual(s, evaluator, evaluatee, rating) ==
    IF evaluator \notin DOMAIN s.trust_graph
    THEN Raise(s, "KeyError")
    ELSE LET old_score == IF evaluatee \in DOMAIN s.trust_graph[evaluator]
                          THEN s.trust_graph[evaluator][evaluatee]
                          ELSE TrustDefault
             new_score == max(0, min(TrustOne, old_score + (rating - 45)))
         IN  [s EXCEPT !.trust_graph =
                 [e \in DOMAIN @ |->
                     IF e = evaluator THEN Put(@[e], evaluatee, new_score)
                     ELSE IF e = evaluatee THEN Put(@[e], evaluator, new_score)
                     ELSE @[e]]]

\* lr * shift = 0.1 * (0.1 * rating - 0.45) is (rating in tenths - 45)
\* thousandths
update_trust_score(s, evaluator, evaluatee, rating) ==
    IF evaluator \notin DOMAIN s.trust_graph
    THEN Raise(s, "KeyError")
    ELSE LET old_score == IF evaluatee \in DOMAIN s.trust_graph[evaluator]
                          THEN s.trust_graph[evaluator][evaluatee]
                          ELSE TrustDefault
             new_score == old_score + (rating - 45)
         IN  [s EXCEPT !.trust_graph[evaluator] =
                           Put(@, evaluatee, max(0, min(TrustOne, new_score)))]

\* the lines f"{m.send_from}: {m.content}" of the messages from position i
RECURSIVE summary_lines(_, _)
summary_lines(messages, i) ==
    IF i > Len(messages)
    THEN <<>>
    ELSE << <<"str">> \o Text(messages[i].send_from) \o <<": ">> \o Text(messages[i].content) >>
         \o summary_lines(messages, i + 1)

summary_of_round(s, round_index) ==
    LET summary_content == Join("\n", summary_lines(s.message_pool.messages, 1))
    IN  <<"str", "Round ", ToString(round_index), " Summary:\n">> \o summary_content

\* as run_round, storing the summary before the round's agents act
run_round_summary_first(s, round_index, acts) ==
    LET s0 == [s EXCEPT !.discussion_history = Append(@, summary_of_round(s, round_index))]
        s1 == checkpoint_environment(s0)
        s2 == run_steps(s1, 1, acts)
    IN  IF s2.exc = "" /\ s2.global_conflict_raised THEN resolve_conflict(s2) ELSE s2

run_round(s, round_index, acts) ==
    LET s1 == checkpoint_environment(s)
        s2 == run_steps(s1, 1, acts)
        s3 == IF s2.exc = "" /\ s2.global_conflict_raised THEN resolve_conflict(s2) ELSE s2
    IN  IF s3.exc # ""
        THEN s3
        ELSE [s3 EXCEPT !.discussion_history = Append(@, summary_of_round(s3, round_index))]

\* the loop of start_discussion, from round i; scripts[i + 1] is what the
\* agents' steps do in round i
RECURSIVE discussion_rounds(_, _, _, _)
discussion_rounds(s, i, n_rounds, scripts) ==
    IF i >= n_rounds \/ s.exc # ""
    THEN s
    ELSE discussion_rounds(run_round(s, i, scripts[i + 1]), i + 1, n_rounds, scripts)

start_discussion(s, n_rounds, scripts) == discussion_rounds(s, 0, n_rounds, scripts)

\* start() calls start_discussion(n_rounds=3), then
\* run_until_stable(max_iterations=20)
DiscussionRounds   == 3
StabilizationSteps == 20

\* as start, stabilizing before the discussion
start_stabilizing_first(s, rounds, steps) ==
    LET s1 == run_until_stable(s, StabilizationSteps, steps)
        s2 == IF s1.exc # "" THEN s1 ELSE start_discussion(s1, DiscussionRounds, rounds)
    IN  [s2 EXCEPT !.iterations = s1.iterations]

start(s, rounds, steps) ==
    LET s1 == start_discussion(s, DiscussionRounds, rounds)
    IN  IF s1.exc # "" THEN s1 ELSE run_until_stable(s1, StabilizationSteps, steps)

----------------------------------------------------------------------------
(* Calls on the MessagePool alone *)

\* The observer's record of a call: its name and argument, the current_time
\* it started at, whether it found what it looked for, what it raised.
Called(op, arg, ok) == [op |-> op, arg |-> arg, at |-> current_time, ok |-> ok, exc |-> ""]

\* a call that is no query returns nothing
NoReturn == [of |-> None, value |-> <<>>]

PoolSenders   == {Str("A")}
PoolReceivers == {Str("B")}
PoolContents  == {Str("q")}

InitPool ==
    /\ message_pool = MessagePool
    /\ clock = 0
    /\ current_time = 0
    /\ last = Called("init", 0, TRUE)
    /\ called_at = <<>>
    /\ people = <<>>
    /\ agents = <<>>
    /\ returned = NoReturn
    /\ global_history = <<>>
    /\ global_conflict_raised = FALSE
    /\ conflict_details = None
    /\ delivered = <<>>
    /\ captured = <<>>
    /\ iterations = 0
    /\ marked = <<>>
    /\ trust_graph = <<>>
    /\ discussion_history = <<>>

Call_update_message(Senders, Receivers) ==
    \E f \in Senders, t \in Receivers, c \in PoolContents :
        /\ clock < PoolSends
        /\ message_pool' = update_message(message_pool, Message(c, f, t, clock))
        /\ clock' = clock + 1
        /\ last' = Called("update_message", 0, TRUE)
        /\ delivered' = <<>>
        /\ returned' = NoReturn
        /\ UNCHANGED <<called_at, envvars>>

Call_snapshot_state(T) ==
    /\ message_pool' = snapshot_state(message_pool, T)
    /\ called_at' = Put(called_at, T, message_pool.messages)
    /\ last' = Called("snapshot_state", T, TRUE)
    /\ delivered' = <<>>
    /\ returned' = NoReturn
    /\ UNCHANGED <<clock, envvars>>

Call_revert_state(T) ==
    /\ message_pool' = revert_state(message_pool, T)
    /\ last' = Called("revert_state", T, T \in DOMAIN message_pool.history_snapshots)
    /\ delivered' = <<>>
    /\ returned' = NoReturn
    /\ UNCHANGED <<clock, called_at, envvars>>

Call_prune_snapshots_after(T) ==
    /\ message_pool' = prune_snapshots_after(message_pool, T)
    /\ called_at' = Restrict(called_at, {k \in DOMAIN called_at : ~(k > T)})
    /\ last' = Called("prune_snapshots_after", T, TRUE)
    /\ delivered' = <<>>
    /\ returned' = NoReturn
    /\ UNCHANGED <<clock, envvars>>

Call_clear_pool ==
    /\ message_pool' = clear_pool(message_pool)
    /\ called_at' = <<>>
    /\ last' = Called("clear_pool", 0, TRUE)
    /\ delivered' = <<>>
    /\ returned' = NoReturn
    /\ UNCHANGED <<clock, envvars>>

NextPool ==
    \/ Call_update_message(PoolSenders, PoolReceivers)
    \/ \E T \in TimeIndices : Call_snapshot_state(T)
    \/ \E T \in TimeIndices : Call_revert_state(T)
    \/ \E T \in TimeIndices : Call_prune_snapshots_after(T)
    \/ Call_clear_pool

SpecPool == InitPool /\ [][NextPool]_vars

\* A MessagePool that is appended to and queried.
Viewers   == {Str("A"), Str("B"), all, ALL}
Addressed == {ALL, Str("A"), Str("B"), Lst(<<Str("A"), Str("B")>>)}

Call_get_visibile_messages(visibile) ==
    /\ returned' = [of |-> visibile, value |-> get_visibile_messages(message_pool, visibile)]
    /\ last' = Called("get_visibile_messages", 0, TRUE)
    /\ delivered' = <<>>
    /\ UNCHANGED <<message_pool, clock, called_at, envvars>>

NextQuery ==
    \/ Call_update_message({Str("A"), Str("B")}, Addressed)
    \/ \E v \in Viewers : Call_get_visibile_messages(v)

SpecQuery == InitPool /\ [][NextQuery]_vars

\* A MessagePool that is appended to and queried by sender.
SenderNames == {Str("A"), Str("B"), all}

Call_get_ones_messages(name) ==
    /\ returned' = [of |-> name, value |-> get_ones_messages(message_pool, name)]
    /\ last' = Called("get_ones_messages", 0, TRUE)
    /\ delivered' = <<>>
    /\ UNCHANGED <<message_pool, clock, called_at, envvars>>

NextSender ==
    \/ Call_update_message(SenderNames, PoolReceivers)
    \/ \E n \in SenderNames : Call_get_ones_messages(n)

SpecSender == InitPool /\ [][NextSender]_vars

----------------------------------------------------------------------------
(* Calls on an Environment and its agents *)

\* The system as the variables hold it, at the start of a call.
Sys ==
    [people |-> people,
     agents |-> agents,
     message_pool |-> message_pool,
     current_time |-> current_time,
     global_history |-> global_history,
     global_conflict_raised |-> global_conflict_raised,
     conflict_details |-> conflict_details,
     clock |-> clock,
     delivered |-> <<>>,
     iterations |-> 0,
     marked |-> marked,
     trust_graph |-> trust_graph,
     discussion_history |-> discussion_history,
     exc |-> ""]

\* What a global checkpoint has to capture: the pool and every agent.
Observed(s) == [messages |-> s.message_pool.messages, agents |-> s.agents]

\* The call op(arg) leaves the system as s; cap is what was captured.
Becomes(s, op, arg, ok, cap) ==
    /\ people' = s.people
    /\ agents' = s.agents
    /\ message_pool' = s.message_pool
    /\ current_time' = s.current_time
    /\ global_history' = s.global_history
    /\ global_conflict_raised' = s.global_conflict_raised
    /\ conflict_details' = s.conflict_details
    /\ clock' = s.clock
    /\ delivered' = s.delivered
    /\ iterations' = s.iterations
    /\ marked' = s.marked
    /\ trust_graph' = s.trust_graph
    /\ discussion_history' = s.discussion_history
    /\ returned' = NoReturn
    /\ last' = [Called(op, arg, ok) EXCEPT !.exc = s.exc]
    /\ captured' = Restrict(cap, DOMAIN cap \cap DOMAIN s.global_history)
    /\ UNCHANGED called_at

StackDepth(a) == Len(agents[a].local_state.backtrack_stack)

EnvPeople  == <<"A", "B">>
EnvClasses == [n \in {"A", "B"} |-> "BaseAgent"]
StepActs == {"pass", "send", "raise", "checkpoint"}

Started(s) ==
    /\ people = s.people
    /\ agents = s.agents
    /\ message_pool = s.message_pool
    /\ current_time = s.current_time
    /\ global_history = s.global_history
    /\ global_conflict_raised = s.global_conflict_raised
    /\ conflict_details = s.conflict_details
    /\ clock = s.clock
    /\ delivered = s.delivered
    /\ iterations = s.iterations
    /\ marked = s.marked
    /\ trust_graph = s.trust_graph
    /\ discussion_history = s.discussion_history
    /\ returned = NoReturn
    /\ last = Called("init", 0, TRUE)
    /\ called_at = <<>>
    /\ captured = <<>>

InitEnv == Started(Environment(EnvPeople, EnvClasses))

Call_send_message ==
    \E receiver \in {ALL} :
        /\ clock < MaxSends
        /\ Becomes(send_message(Sys, Str(people[1]), receiver, "INFORM", Str("q")),
                   "send_message", 0, TRUE, captured)

Call_checkpoint_environment ==
    Becomes(checkpoint_environment(Sys), "checkpoint_environment", 0, TRUE,
            Put(captured, current_time, Observed(Sys)))

Call_revert_environment(T) ==
    Becomes(revert_environment(Sys, T), "revert_environment", T,
            T \in DOMAIN global_history, captured)

Call_raise_conflict ==
    /\ ~global_conflict_raised
    /\ Becomes(raise_conflict(Sys, Str("d")), "raise_conflict", 0, TRUE, captured)

Call_resolve_conflict ==
    Becomes(resolve_conflict(Sys), "resolve_conflict", 0,
            \E k \in DOMAIN global_history : k < current_time, captured)

\* the steps in which one agent acts and the others pass
StepScripts(s, Acts) ==
    {[n \in Names(s) |-> IF n = a THEN act ELSE "pass"] : a \in Names(s), act \in Acts}

Call_run_time_step(Acts) ==
    \E acts \in StepScripts(Sys, Acts) :
        /\ current_time < MaxTime
        /\ \A a \in Names(Sys) : acts[a] = "send" => clock + Len(people) <= MaxSends
        /\ \A a \in Names(Sys) : acts[a] = "checkpoint" => StackDepth(a) < MaxStack
        /\ Becomes(run_time_step(Sys, acts), "run_time_step",
                   Cardinality({a \in Names(Sys) : acts[a] = "raise"}),
                   global_conflict_raised \/ \E a \in Names(Sys) : acts[a] = "raise",
                   Put(captured, current_time + 1, Observed(Sys)))

Call_checkpoint_state ==
    \E a \in Names(Sys) :
        /\ StackDepth(a) < MaxDepth
        /\ Becomes([Sys EXCEPT !.agents[a] = checkpoint_state(@),
                               !.marked[a] = Append(@, agents[a].local_state)],
                   "checkpoint_state", a, TRUE, captured)

Call_local_backtrack ==
    \E a \in Names(Sys) :
        Becomes([Sys EXCEPT !.agents[a] = local_backtrack(@),
                            !.marked[a] = SubSeq(@, 1, Len(@) - 1)],
                "local_backtrack", a, StackDepth(a) > 0, captured)

\* the agent's reasoning puts an entry into its live local state
Call_mutate_local_state ==
    \E a \in Names(Sys), field \in {"verified_facts", "history"} :
        /\ Len(agents[a].local_state.verified_facts) + Len(agents[a].local_state.history)
               < MaxFacts
        /\ Becomes([Sys EXCEPT !.agents[a].local_state[field] = Append(@, Str("f"))],
                   "mutate", a, TRUE, captured)

NextLocal ==
    \/ Call_checkpoint_state
    \/ Call_local_backtrack
    \/ Call_mutate_local_state

SpecLocal == InitEnv /\ [][NextLocal]_vars

\* An Environment of two plain agents whose local checkpoints are taken
\* and taken back between global checkpoints and reverts.
Call_revert_to_checkpoints(T) ==
    LET s == revert_environment(Sys, T)
    IN  Becomes([s EXCEPT !.marked =
                     [a \in DOMAIN @ |-> s.agents[a].local_state.backtrack_stack]],
                "revert_environment", T, T \in DOMAIN global_history, captured)

NextShape ==
    \/ Call_checkpoint_state
    \/ Call_local_backtrack
    \/ Call_checkpoint_environment
    \/ \E T \in 0..MaxTime : Call_revert_to_checkpoints(T)

SpecShape == InitEnv /\ [][NextShape]_vars

NextEnv ==
    \/ Call_send_message
    \/ Call_checkpoint_environment
    \/ \E T \in 0..MaxTime : Call_revert_environment(T)
    \/ Call_raise_conflict
    \/ Call_resolve_conflict
    \/ Call_run_time_step(StepActs)

SpecEnv == InitEnv /\ [][NextEnv]_vars

\* An Environment of the six role agents of agent.py, which are sent
\* messages from outside.
RolePeople ==
    <<"QuestionDecomposerAgent", "RetrieverAgent", "VerifierAgent",
      "AnswerAssemblerAgent", "SupervisorAgent", "ControllerAgent">>
RoleClasses == [n \in {RolePeople[i] : i \in 1..Len(RolePeople)} |-> n]

Stimuli ==
    {Envelope(Str("User"), Str("QuestionDecomposerAgent"), "INFORM", Str("q")),
     Envelope(Str("RetrieverAgent"), Str("VerifierAgent"), "INFORM",
              Dict(<< <<"evidence_list", Lst(<<Str("e")>>)>> >>)),
     Envelope(Str("VerifierAgent"), Str("AnswerAssemblerAgent"), "ASSERT",
              Dict(<< <<"verified_facts", Lst(<<Str("f")>>)>> >>)),
     Envelope(Str("VerifierAgent"), Str("ControllerAgent"), "CONFLICT",
              Dict(<< <<"conflict_detail", ConflictText>> >>)),
     Envelope(Str("ControllerAgent"), ALL, "BACKTRACK",
              Dict(<< <<"reason", Str("r")>> >>))}

InitRoles == Started(Environment(RolePeople, RoleClasses))

Call_send_to_role ==
    \E m \in Stimuli :
        /\ clock < RoleSends
        /\ Becomes(send_message(Sys, m.sender, m.receiver, m.msg_type, m.content),
                   "send_message", 0, TRUE, captured)

NextRoles ==
    \/ Call_send_to_role
    \/ Call_checkpoint_environment
    \/ \E T \in 0..MaxTime : Call_revert_environment(T)

SpecRoles == InitRoles /\ [][NextRoles]_vars

\* The six role agents are sent messages of a type they do not handle, or
\* of a type they handle with a content of another shape than they read.
Malformed ==
    {Envelope(Str("User"), Str("QuestionDecomposerAgent"), "INFORM",
              Dict(<< <<"question", Str("q")>> >>)),
     Envelope(Str("User"), Str("RetrieverAgent"), "UNKNOWN", Str("plain text")),
     Envelope(Str("User"), Str("RetrieverAgent"), "ASSERT", Str("plain text")),
     Envelope(Str("User"), Str("RetrieverAgent"), "ASSERT", Dict(<<>>)),
     Envelope(Str("User"), Str("VerifierAgent"), "INFORM", Str("plain text")),
     Envelope(Str("User"), Str("VerifierAgent"), "INFORM",
              Dict(<< <<"sub_question", Str("q")>> >>)),
     Envelope(Str("User"), Str("AnswerAssemblerAgent"), "ASSERT", Str("plain text")),
     Envelope(Str("User"), Str("SupervisorAgent"), "INFORM", Str("final_answer")),
     Envelope(Str("User"), Str("SupervisorAgent"), "INFORM", None),
     Envelope(Str("User"), Str("SupervisorAgent"), "CONFLICT", Str("plain text")),
     Envelope(Str("User"), Str("ControllerAgent"), "UNKNOWN", Str("plain text")),
     Envelope(Str("User"), Str("ControllerAgent"), "BACKTRACK", None)}

Call_send_malformed ==
    \E m \in Malformed :
        /\ clock < MaxSends
        /\ Becomes(send_message(Sys, m.sender, m.receiver, m.msg_type, m.content),
                   "send_message", m, TRUE, captured)

NextMalformed == Call_send_malformed

SpecMalformed == InitRoles /\ [][NextMalformed]_vars

\* The six role agents are sent broadcasts from outside and from the
\* VerifierAgent, to which some of them react with a send of their own.
Broadcasts ==
    {Envelope(sender, ALL, msg_type, content) :
        sender \in {Str("User"), Str("VerifierAgent")},
        msg_type \in {"CONFLICT", "BACKTRACK"},
        content \in {Dict(<< <<"conflict_detail", Str("d")>> >>),
                     Dict(<< <<"reason", Str("r")>> >>)}}

Call_send_broadcast ==
    \E m \in Broadcasts :
        /\ clock < RoleSends
        /\ Becomes(send_message(Sys, m.sender, m.receiver, m.msg_type, m.content),
                   "send_message", m, TRUE, captured)

NextReentrant == Call_send_broadcast

SpecReentrant == InitRoles /\ [][NextReentrant]_vars

\* The six role agents are registered and the VerifierAgent is sent
\* evidence: new, known, repeating itself, or none.
Evidence ==
    {Envelope(Str("RetrieverAgent"), Str("VerifierAgent"), "INFORM", content) :
        content \in {Dict(<< <<"evidence_list", Lst(<<Str("e")>>)>> >>),
                     Dict(<< <<"evidence_list", Lst(<<Str("f")>>)>> >>),
                     Dict(<< <<"evidence_list", Lst(<<Str("e"), Str("e")>>)>> >>),
                     Dict(<< <<"evidence_list", Lst(<<Str("e"), Str("f")>>)>> >>),
                     Dict(<< <<"sub_question", Str("q")>> >>)}}

Call_send_evidence ==
    \E m \in Evidence :
        /\ clock < RoleSends + MaxSends
        /\ Becomes(send_message(Sys, m.sender, m.receiver, m.msg_type, m.content),
                   "send_message", m, TRUE, captured)

NextEvidence == Call_send_evidence

SpecEvidence == InitRoles /\ [][NextEvidence]_vars

\* The six role agents are registered and messages are sent to names
\* under which no agent is registered.
Strays ==
    {Envelope(sender, receiver, msg_type, content) :
        sender \in {Str("User"), Str("VerifierAgent")},
        receiver \in {Str("Nobody"), Str("verifieragent"), Str("")},
        msg_type \in {"INFORM", "CONFLICT"},
        content \in {Str("q"), Dict(<< <<"evidence_list", Lst(<<Str("e")>>)>> >>)}}

Call_send_stray ==
    \E m \in Strays :
        /\ clock < MaxSends
        /\ Becomes(send_message(Sys, m.sender, m.receiver, m.msg_type, m.content),
                   "send_message", m, TRUE, captured)

NextStray == Call_send_stray

SpecStray == InitRoles /\ [][NextStray]_vars

\* An Environment of three plain agents that send to one another by name
\* and read what is visible to them.
SendPeople  == <<"A", "B", "C">>
SendClasses == [n \in {"A", "B", "C"} |-> "BaseAgent"]

InitSend == Started(Environment(SendPeople, SendClasses))

Call_send_named ==
    \E sender \in Names(Sys), receiver \in Names(Sys) :
        /\ clock < MaxSends
        /\ Becomes(agent_send_message(Sys, sender, "INFORM", Str(receiver), Str("q")),
                   "send_message",
                   Envelope(Str(sender), Str(receiver), "INFORM", Str("q")),
                   TRUE, captured)

NextSend ==
    \/ Call_send_named
    \/ \E n \in Names(Sys) : Call_get_visibile_messages(Str(n))

SpecSend == InitSend /\ [][NextSend]_vars

\* A fresh Environment of three plain agents that only runs time steps in
\* which no agent raises a conflict.
QuietActs == {"pass", "send"}

InitQuiet == Started(Environment(SendPeople, SendClasses))

Call_quiet_time_step ==
    \E acts \in [Names(Sys) -> QuietActs] :
        /\ current_time < MaxSteps
        /\ Becomes(run_time_step(Sys, acts), "run_time_step", 0, FALSE,
                   Put(captured, current_time + 1, Observed(Sys)))

NextQuiet == Call_quiet_time_step

SpecQuiet == InitQuiet /\ [][NextQuiet]_vars

\* An Environment driven by run_until_stable.
DriveActs == {"pass", "send", "raise"}

\* the number of iterations of scripts in which some agent does act
Doing(scripts, act) ==
    Cardinality({i \in DOMAIN scripts : \E a \in DOMAIN scripts[i] : scripts[i][a] = act})

Call_run_until_stable(max_iterations) ==
    \E scripts \in [1..max_iterations -> StepScripts(Sys, DriveActs)] :
        /\ current_time + max_iterations <= MaxSteps
        /\ clock + Doing(scripts, "send") <= MaxSends
        /\ Becomes(run_until_stable(Sys, max_iterations, scripts), "run_until_stable",
                   max_iterations, Doing(scripts, "raise") > 0, <<>>)

NextDrive ==
    \/ \E n \in 0..MaxIterations : Call_run_until_stable(n)
    \/ Call_checkpoint_environment

SpecDrive == InitEnv /\ [][NextDrive]_vars

\* A GroupChatEnvironment of three plain agents whose trust scores are
\* updated.  A rating is in tenths; every rating 0..9 and the rating 4.5
\* is given by the first agent to the second, the second rates the first
\* with 9, and the third rates itself with 4.5.
TrustPeople  == <<"A", "B", "C">>
TrustClasses == [n \in {"A", "B", "C"} |-> "BaseAgent"]
Ratings      == {10 * r : r \in 0..9} \cup {45}
RatingsOf(evaluator, evaluatee) ==
    IF evaluator = TrustPeople[1] /\ evaluatee = TrustPeople[2] THEN Ratings
    ELSE IF evaluator = TrustPeople[2] /\ evaluatee = TrustPeople[1] THEN {90}
    ELSE IF evaluator = TrustPeople[3] /\ evaluatee = TrustPeople[3] THEN {45}
    ELSE {}

InitTrust == Started(GroupChatEnvironment(TrustPeople, TrustClasses))

Call_update_trust_score ==
    \E evaluator \in Names(Sys), evaluatee \in Names(Sys) :
        \E rating \in RatingsOf(evaluator, evaluatee) :
            Becomes(update_trust_score(Sys, evaluator, evaluatee, rating),
                    "update_trust_score",
                    [evaluator |-> evaluator, evaluatee |-> evaluatee, rating |-> rating,
                     old |-> IF evaluatee \in DOMAIN trust_graph[evaluator]
                             THEN trust_graph[evaluator][evaluatee] ELSE TrustDefault],
                    evaluatee \in DOMAIN trust_graph[evaluator], captured)

NextTrust == Call_update_trust_score

SpecTrust == InitTrust /\ [][NextTrust]_vars

\* A GroupChatEnvironment of two plain agents that is sent messages,
\* checkpointed, reverted, stepped and run in rounds while the first agent
\* rates the second.
ChatActs  == {"pass", "send", "raise"}
QuarrelActs == {"pass", "raise"}

InitChat == Started(GroupChatEnvironment(EnvPeople, EnvClasses))

Call_rate ==
    \E evaluator \in {people[1]}, evaluatee \in {people[2]} :
        /\ trust_graph[evaluator][evaluatee] < TrustDefault + 45 * MaxRatings
        /\ Becomes(update_trust_score(Sys, evaluator, evaluatee, 90),
                   "update_trust_score",
                   [evaluator |-> evaluator, evaluatee |-> evaluatee, rating |-> 90,
                    old |-> trust_graph[evaluator][evaluatee]],
                   TRUE, captured)

\* the sends a script of steps makes
Sends(acts) == Cardinality({a \in DOMAIN acts : acts[a] = "send"})

Call_run_round(Acts) ==
    \E acts \in [Names(Sys) -> Acts] :
        /\ Len(discussion_history) < MaxRounds
        /\ clock + Sends(acts) <= MaxSends
        /\ Becomes(run_round(Sys, Len(discussion_history), acts), "run_round",
                   Len(discussion_history),
                   global_conflict_raised \/ \E a \in Names(Sys) : acts[a] = "raise",
                   Put(captured, current_time, Observed(Sys)))

Call_start_discussion(n_rounds) ==
    \E scripts \in [1..n_rounds -> StepScripts(Sys, ChatActs)] :
        /\ Len(discussion_history) + n_rounds <= MaxRounds
        /\ clock + Doing(scripts, "send") <= MaxSends
        /\ Becomes(start_discussion(Sys, n_rounds, scripts), "start_discussion",
                   [n_rounds |-> n_rounds, sends |-> [i \in 1..n_rounds |-> Sends(scripts[i])]],
                   global_conflict_raised \/ Doing(scripts, "raise") > 0, <<>>)

Call_chat_time_step(Acts) ==
    \E acts \in StepScripts(Sys, Acts) :
        /\ current_time < MaxTime
        /\ clock + Sends(acts) <= MaxSends
        /\ Becomes(run_time_step(Sys, acts), "run_time_step", 0,
                   global_conflict_raised \/ \E a \in Names(Sys) : acts[a] = "raise",
                   Put(captured, current_time + 1, Observed(Sys)))

NextChat ==
    \/ Call_rate
    \/ Call_send_message
    \/ Call_checkpoint_environment
    \/ \E T \in 0..MaxTime : Call_revert_environment(T)
    \/ Call_resolve_conflict
    \/ Call_chat_time_step(QuarrelActs)
    \/ Call_run_round(QuarrelActs)

SpecChat == InitChat /\ [][NextChat]_vars

\* A GroupChatEnvironment of two plain agents that is stepped and run in
\* rounds.
NextRounds ==
    \/ Call_chat_time_step(ChatActs)
    \/ Call_run_round(ChatActs)
    \/ \E n \in 0..MaxRounds : Call_start_discussion(n)

SpecRounds == InitChat /\ [][NextRounds]_vars

\* A fresh GroupChatEnvironment on which start() is called once.  In each
\* round one agent acts; in the stabilization run the first agent acts
\* in at most one step.
StepPlans(s) ==
    {[i \in 1..StabilizationSteps |->
         [n \in Names(s) |-> IF i = k /\ n = s.people[1] THEN act ELSE "pass"]] :
     k \in {1, StabilizationSteps}, act \in ChatActs}

Call_start ==
    \E rounds \in [1..DiscussionRounds -> StepScripts(Sys, ChatActs)] :
        \E steps \in StepPlans(Sys) :
            /\ last.op = "init"
            /\ Becomes(start(Sys, rounds, steps), "start",
                       [rounds |-> Doing(rounds, "send"), steps |-> Doing(steps, "send")],
                       Doing(rounds, "raise") + Doing(steps, "raise") > 0, <<>>)

NextStart == Call_start

SpecStart == InitChat /\ [][NextStart]_vars

\* A MessagePool on its own, or an Environment whose holder also calls
\* revert_state on its pool.
InitBoth == InitPool \/ InitEnv

NextBoth ==
    \/ people = <<>> /\ NextPool
    \/ people # <<>> /\ Call_send_message
    \/ people # <<>> /\ Call_checkpoint_environment
    \/ people # <<>> /\ \E T \in 0..MaxTime : Call_revert_environment(T)
    \/ people # <<>> /\ Call_run_time_step({"pass", "checkpoint"})
    \/ people # <<>> /\ \E T \in TimeIndices : Call_revert_state(T)

SpecBoth == InitBoth /\ [][NextBoth]_vars

----------------------------------------------------------------------------
(* Properties of the MessagePool *)

LiveMessages == message_pool.messages
Snapshots    == message_pool.history_snapshots

\* Some message created after the last live one is no longer live.
LaterMessageGone ==
    /\ LiveMessages # <<>>
    /\ clock > LiveMessages[Len(LiveMessages)].msg_id + 1

\* C1: after appends, snapshot_state(T), further appends and revert_state(T),
\* the live sequence is exactly the sequence at the moment snapshot_state(T)
\* was called.
C1_RoundTrip ==
    (last.op = "revert_state" /\ last.ok) =>
        /\ last.arg \in DOMAIN called_at
        /\ LiveMessages = called_at[last.arg]

C1_Witness ==
    /\ last.op = "revert_state" /\ last.ok
    /\ LaterMessageGone

\* C7: after revert_state(T) with a snapshot at T, the live sequence is the
\* copy stored at T and every snapshot with index greater than T is gone.
C7_RevertDiscardsFuture ==
    (last.op = "revert_state" /\ last.ok) =>
        /\ LiveMessages = Snapshots[last.arg]
        /\ \A k \in DOMAIN Snapshots : k <= last.arg

\* C8: the snapshot stored at T stays equal to the live sequence at the
\* moment snapshot_state(T) was called, through later appends and reverts,
\* until it is taken again, pruned or cleared.
C8_SnapshotIsolation ==
    \A T \in DOMAIN called_at :
        /\ T \in DOMAIN Snapshots
        /\ Snapshots[T] = called_at[T]

C8_Witness ==
    /\ last.op = "update_message"
    /\ Len(LiveMessages) >= 2
    /\ LiveMessages[Len(LiveMessages)].msg_id > LiveMessages[Len(LiveMessages) - 1].msg_id + 1
    /\ \E T \in DOMAIN called_at :
           /\ called_at[T] # <<>>
           /\ called_at[T] = SubSeq(LiveMessages, 1, Len(LiveMessages) - 1)

\* m is one of the messages of the sequence s
Appears(m, s) == \E j \in 1..Len(s) : s[j] = m

\* The partition, as a get_visibile_messages(x) call shows it, with
\* whole the argument taken to return the entire sequence: a broadcast is
\* returned to every participant, a message to p is returned to p and to
\* whole and to no other participant.
Partition(whole) ==
    last.op = "get_visibile_messages" =>
        LET x == returned.of
            Participants == {Str("A"), Str("B")}
        IN  /\ x = whole => returned.value = LiveMessages
            /\ \A i \in 1..Len(LiveMessages) :
                   LET m == LiveMessages[i]
                   IN  /\ (m.send_to = ALL /\ x \in Participants) => Appears(m, returned.value)
                       /\ (m.send_to \in Participants /\ (x = m.send_to \/ x = whole))
                              => Appears(m, returned.value)
                       /\ (m.send_to \in Participants /\ x \in Participants /\ x # m.send_to)
                              => ~Appears(m, returned.value)

\* C10, as claimed: the partition, with visible("ALL") - the broadcast
\* sentinel of send_to - returning the entire sequence.
C10_PartitionBySentinel == Partition(ALL)

\* C10, amended: the partition, with visible("all") - the lower-case
\* marker, not the broadcast sentinel "ALL" - returning the entire sequence.
C10_PartitionByMarker == Partition(all)

C10_Witness ==
    /\ last.op = "get_visibile_messages"
    /\ returned.of = Str("A")
    /\ Len(returned.value) = 2
    /\ \E i, j, k \in 1..Len(LiveMessages) :
           /\ LiveMessages[i].send_to = ALL
           /\ LiveMessages[j].send_to = Str("A")
           /\ LiveMessages[k].send_to = Str("B")

----------------------------------------------------------------------------
(* Properties of the Environment *)

Max(S) == CHOOSE k \in S : \A j \in S : j <= k

\* The pool and every agent's local state are as observed in was.
Restored(pool, ags, was) ==
    /\ pool.messages = was.messages
    /\ \A n \in DOMAIN ags : ags[n].local_state = was.agents[n].local_state

\* C2: after a successful revert_environment(T) the message pool and the
\* state of every registered participant are what they were when the
\* bundle at T was captured: no participant keeps state produced after T.
C2_RevertCoherent ==
    (last.op = "revert_environment" /\ last.ok) =>
        /\ last.arg \in DOMAIN captured
        /\ LiveMessages = captured[last.arg].messages
        /\ \A n \in DOMAIN agents : agents[n] = captured[last.arg].agents[n]

\* C3: every bundle of the global history is stored under the time it was
\* taken at and holds the pool and every participant's local state as they
\* were at that one instant - for a time step, after the increment and
\* before any participant's step - and nothing later changes a stored bundle.
C3_BundleConsistent ==
    /\ DOMAIN global_history = DOMAIN captured
    /\ \A T \in DOMAIN global_history :
           /\ global_history[T].time = T
           /\ global_history[T].message_pool = captured[T].messages
           /\ DOMAIN global_history[T].agents_state = DOMAIN agents
           /\ \A n \in DOMAIN agents :
                  global_history[T].agents_state[n] = captured[T].agents[n].local_state
    /\ (last.op = "run_time_step" /\ current_time = last.at + 1)
           => current_time \in DOMAIN global_history

C3_Witness ==
    /\ last.op = "run_time_step"
    /\ current_time = last.at + 1
    /\ current_time \in DOMAIN global_history
    /\ \E T \in DOMAIN global_history : T < current_time
    /\ global_history[current_time].message_pool # LiveMessages
    /\ \E n \in DOMAIN agents :
           \E T \in DOMAIN global_history : agents[n].local_state # global_history[T].agents_state[n]

\* C4: resolve_conflict at time t reverts the system to the greatest time
\* index below t that has a bundle, and leaves the flag false and the
\* details empty.
C4_ResolveRevertsToLatest ==
    [][last'.op = "resolve_conflict" =>
          LET K == {k \in DOMAIN global_history : k < current_time}
          IN  /\ ~global_conflict_raised'
              /\ conflict_details' = None
              /\ K # {} =>
                    /\ current_time' = Max(K)
                    /\ Max(K) \in DOMAIN captured
                    /\ Restored(message_pool', agents', captured[Max(K)])
                    /\ DOMAIN global_history' = {k \in DOMAIN global_history : k <= Max(K)}
                    /\ \A k \in DOMAIN global_history' : global_history'[k] = global_history[k]]_vars

C4_Witness ==
    /\ last.op = "resolve_conflict" /\ last.ok
    /\ last.at = 2 /\ current_time = 1
    /\ DOMAIN global_history = {0, 1}
    /\ LaterMessageGone

\* C5: resolve_conflict with no bundle at any index below the current time
\* changes nothing but the flag and the details, and leaves the flag false;
\* so does the resolution inside the first time step, whose own checkpoint
\* stays.
C5_ResolveWithoutSnapshot ==
    [][LET K == {k \in DOMAIN global_history : k < current_time}
       IN  /\ (last'.op = "resolve_conflict" /\ K = {}) =>
                 /\ UNCHANGED <<message_pool, agents, current_time, global_history>>
                 /\ ~global_conflict_raised' /\ conflict_details' = None
           /\ (last'.op = "run_time_step" /\ last'.ok /\ ~(\E k \in DOMAIN global_history : k <= current_time)) =>
                 /\ current_time' = current_time + 1
                 /\ DOMAIN global_history' = {current_time + 1}
                 /\ Len(message_pool'.messages) >= Len(message_pool.messages)
                 /\ ~global_conflict_raised' /\ conflict_details' = None]_vars

C5_Witness ==
    /\ last.op = "resolve_conflict" /\ ~last.ok
    /\ last.at = 1
    /\ LiveMessages # <<>>
    /\ \E n \in DOMAIN agents : agents[n].local_state.backtrack_stack # <<>>

\* C6: after a successful revert_environment(T) the global history holds
\* no key greater than T.
C6_RevertMonotone ==
    (last.op = "revert_environment" /\ last.ok) =>
        /\ current_time = last.arg
        /\ \A k \in DOMAIN global_history : k <= last.arg

C6_Witness ==
    /\ last.op = "revert_environment" /\ last.ok
    /\ last.at = 2 /\ last.arg = 0

\* C9: reverting to a time index that has no snapshot changes nothing and
\* raises nothing: revert_state leaves the live sequence and the snapshots,
\* revert_environment the pool, the agents, the current time and the
\* global history.
C9_RevertMissIsNoOp ==
    [][/\ (last'.op = "revert_state" /\ ~last'.ok) =>
             /\ UNCHANGED <<message_pool, agents, current_time, global_history>>
             /\ last'.exc = ""
       /\ (last'.op = "revert_environment" /\ ~last'.ok) =>
             /\ UNCHANGED <<message_pool, agents, current_time, global_history>>
             /\ last'.exc = ""]_vars

C9_Witness ==
    /\ last.op = "revert_environment" /\ ~last.ok
    /\ last.arg # current_time
    /\ LiveMessages # <<>>
    /\ global_history # <<>>
    /\ \E n \in DOMAIN agents : agents[n].local_state.backtrack_stack # <<>>

----------------------------------------------------------------------------
(* Queries of the MessagePool *)

\* the position of a live message (msg_id is unique)
Position(m) == CHOOSE k \in 1..Len(LiveMessages) : LiveMessages[k] = m

\* the live messages, as a set
Live == {LiveMessages[k] : k \in 1..Len(LiveMessages)}

\* value holds exactly the messages of wanted, each once, in the order of
\* the live sequence
ExactlyInOrder(value, wanted) ==
    /\ {value[i] : i \in 1..Len(value)} = wanted
    /\ \A i, j \in 1..Len(value) : i < j => Position(value[i]) < Position(value[j])

\* C11: for a participant identifier p, get_visibile_messages(p) returns,
\* in insertion order and each once, exactly the live messages whose
\* send_to is "ALL", is p, or is a list containing p.
C11_VisibleExact ==
    (last.op = "get_visibile_messages" /\ returned.of # all) =>
        LET p == returned.of
        IN  ExactlyInOrder(returned.value,
                           {m \in Live : \/ m.send_to = ALL
                                         \/ m.send_to = p
                                         \/ IsList(m.send_to) /\ InList(p, m.send_to)})

C11_Witness ==
    /\ last.op = "get_visibile_messages" /\ returned.of = Str("A")
    /\ Len(returned.value) = 2 /\ Len(LiveMessages) = 3
    /\ \E i \in 1..2 : IsList(returned.value[i].send_to)
    /\ \E i \in 1..2 : returned.value[i].send_to = ALL
    /\ \E k \in 1..3 : LiveMessages[k].send_to = Str("B")

\* C12: get_ones_messages(id) returns, in insertion order, exactly the live
\* messages whose send_from is id, for every identifier id.
C12_BySenderExact ==
    last.op = "get_ones_messages" =>
        LET id == returned.of
        IN  ExactlyInOrder(returned.value, {m \in Live : m.send_from = id})

----------------------------------------------------------------------------
(* Sending through the Environment *)

\* the positions in msgs of the messages created since the clock read since
New(msgs, since) == {k \in 1..Len(msgs) : msgs[k].msg_id >= since}

\* the positions in msgs of the messages created since then that have the
\* sender, the receiver and the content of m
Same(msgs, since, m) ==
    {k \in New(msgs, since) : /\ msgs[k].send_from = m.send_from
                              /\ msgs[k].send_to = m.send_to
                              /\ msgs[k].content = m.content}

\* the positions in log of the receive_message calls made on the agent n
\* with a message of the sender, the receiver and the content of m
Deliveries(log, n, m) ==
    {i \in 1..Len(log) : /\ log[i].to = n
                         /\ log[i].msg.sender = m.send_from
                         /\ log[i].msg.receiver = m.send_to
                         /\ log[i].msg.content = m.content}

\* C13: a send_message with receiver "ALL" records exactly one message in
\* the pool and calls receive_message exactly once on every registered
\* agent other than the sender, and never on the sender.
C13_BroadcastDelivery ==
    [][(last'.op = "send_message" /\ last'.exc = "") =>
          /\ Cardinality(New(message_pool'.messages, clock)) = clock' - clock
          /\ SubSeq(message_pool'.messages, 1, Len(message_pool.messages)) =
                 message_pool.messages
          /\ \A k \in New(message_pool'.messages, clock) :
                 LET m == message_pool'.messages[k]
                 IN  m.send_to = ALL =>
                        \A i \in 1..Len(people') :
                            Cardinality(Deliveries(delivered', people'[i], m)) =
                                IF Str(people'[i]) = m.send_from
                                THEN 0
                                ELSE Cardinality(Same(message_pool'.messages, clock, m))]_vars

\* the VerifierAgent's CONFLICT has made the SupervisorAgent broadcast
C13_Witness ==
    /\ last.op = "send_message" /\ last.exc = ""
    /\ \E k \in 1..Len(LiveMessages) :
           /\ LiveMessages[k].send_to = ALL
           /\ LiveMessages[k].send_from = Str("SupervisorAgent")
    /\ Cardinality({i \in 1..Len(delivered) : delivered[i].msg.receiver = ALL}) = 5
    /\ \A i \in 1..Len(delivered) :
           delivered[i].msg.receiver = ALL => delivered[i].to # "SupervisorAgent"

\* C14: a send from A to the registered name B appends exactly one message
\* and calls receive_message exactly once, on B; get_visibile_messages(B)
\* then holds that message after what it held before, so that in a fresh
\* system it is exactly that one message.
C14_NamedDelivery ==
    [][/\ last'.op = "send_message" =>
             LET e == last'.arg
                 m == message_pool'.messages[Len(message_pool'.messages)]
             IN  /\ message_pool'.messages = Append(message_pool.messages, m)
                 /\ m.send_from = e.sender /\ m.send_to = e.receiver
                 /\ m.content = e.content
                 /\ \E b \in DOMAIN agents :
                        Str(b) = e.receiver /\ delivered' = <<[to |-> b, msg |-> e]>>
                 /\ get_visibile_messages(message_pool', e.receiver) =
                        Append(get_visibile_messages(message_pool, e.receiver), m)
                 /\ last'.exc = ""
       /\ (/\ last'.op = "get_visibile_messages"
           /\ Len(message_pool'.messages) = 1
           /\ message_pool'.messages[1].send_to = returned'.of) =>
              returned'.value = message_pool'.messages]_vars

C14_Witness ==
    /\ last.op = "get_visibile_messages" /\ returned.of = Str("B")
    /\ Len(LiveMessages) = 1 /\ Len(returned.value) = 1
    /\ returned.value[1].send_from = Str("A")
    /\ returned.value[1].content = Str("q")

\* the registered agents send_message delivers the message m to
Addressees(m, names) ==
    IF m.send_to = ALL
    THEN {n \in names : Str(n) # m.send_from}
    ELSE {n \in names : Str(n) = m.send_to}

\* C15: when a send_message call returns, its message and every message
\* sent from inside the receive_message calls it caused are in the pool,
\* each has been delivered to every agent it is addressed to, and the log
\* of deliveries holds nothing else: no delivery is left pending.
C15_SendSynchronous ==
    [][(last'.op = "send_message" /\ last'.exc = "") =>
          LET msgs == message_pool'.messages
          IN  /\ Cardinality(New(msgs, clock)) = clock' - clock
              /\ \A k \in New(msgs, clock), n \in DOMAIN agents' :
                     Cardinality(Deliveries(delivered', n, msgs[k])) =
                         IF n \in Addressees(msgs[k], DOMAIN agents')
                         THEN Cardinality(Same(msgs, clock, msgs[k]))
                         ELSE 0
              /\ \A i \in 1..Len(delivered') :
                     \E k \in New(msgs, clock) :
                         i \in Deliveries(delivered', delivered'[i].to, msgs[k])]_vars

\* the question has gone through the six roles before the send returned
C15_Witness ==
    /\ last.op = "send_message" /\ last.exc = ""
    /\ Len(delivered) = 11
    /\ delivered[1].to = "QuestionDecomposerAgent"
    /\ delivered[11].to = "SupervisorAgent"
    /\ HasKey(delivered[11].msg.content, "final_answer")
    /\ LiveMessages[Len(LiveMessages)].send_to = Str("SupervisorAgent")

\* the messages of msgs are in the order in which their sends began
InSendOrder(msgs) ==
    \A i, j \in 1..Len(msgs) : i < j => msgs[i].msg_id < msgs[j].msg_id

\* C16: the pool holds the messages in the order in which their
\* send_message calls began, and get_visibile_messages keeps that order:
\* the messages of one send_message call, the outer one first and each
\* reaction after the message it reacts to, follow everything sent before
\* the call and precede everything sent after it.
C16_AppendOrder ==
    [][(last'.op = "send_message" /\ last'.exc = "") =>
          LET msgs == message_pool'.messages
              old  == Len(message_pool.messages)
          IN  /\ Len(msgs) = old + (clock' - clock)
              /\ SubSeq(msgs, 1, old) = message_pool.messages
              /\ \A j \in 1..(clock' - clock) : msgs[old + j].msg_id = clock + j - 1
              /\ InSendOrder(msgs)
              /\ \A n \in DOMAIN agents' :
                     InSendOrder(get_visibile_messages(message_pool', Str(n)))]_vars

\* each sub-question is followed by the evidence and the facts it led to,
\* before the next sub-question
C16_Witness ==
    /\ last.op = "send_message" /\ Len(LiveMessages) = 11
    /\ LiveMessages[2].send_to = Str("RetrieverAgent")
    /\ LiveMessages[3].send_to = Str("VerifierAgent")
    /\ LiveMessages[4].send_to = Str("AnswerAssemblerAgent")
    /\ LiveMessages[5].send_to = Str("RetrieverAgent")
    /\ Len(get_visibile_messages(message_pool, Str("RetrieverAgent"))) = 3

----------------------------------------------------------------------------
(* Conflicts and time steps *)

\* C18: a conflict raised during a time step is resolved within that step:
\* whenever run_time_step returns, global_conflict_raised is false and
\* conflict_details is None.
C18_StepResolvesConflict ==
    (last.op = "run_time_step" /\ last.exc = "") =>
        ~global_conflict_raised /\ conflict_details = None

\* an agent raised the conflict during the step that has just returned
C18_Witness ==
    /\ last.op = "run_time_step" /\ last.arg = 1 /\ last.at = 1
    /\ ~global_conflict_raised /\ conflict_details = None
    /\ current_time = 1

\* C19: raise_conflict sets the flag and stores the details and changes
\* nothing else: not the pool, the agents, the current time or the global
\* history; and the raised flag causes no revert by itself: sends and
\* checkpoints made while it is raised leave it raised and take nothing
\* back.
C19_RaiseOnlyFlags ==
    [][/\ last'.op = "raise_conflict" =>
             /\ global_conflict_raised' /\ conflict_details' = Str("d")
             /\ UNCHANGED <<message_pool, agents, current_time, global_history, people>>
       /\ (global_conflict_raised /\ last'.op \in {"send_message", "checkpoint_environment"}) =>
             /\ global_conflict_raised' /\ conflict_details' = conflict_details
             /\ current_time' = current_time
             /\ SubSeq(message_pool'.messages, 1, Len(message_pool.messages)) =
                    message_pool.messages
             /\ \A k \in DOMAIN global_history : k \in DOMAIN global_history']_vars

C19_Witness ==
    /\ last.op = "raise_conflict"
    /\ global_conflict_raised /\ conflict_details = Str("d")
    /\ LiveMessages # <<>> /\ current_time > 0
    /\ Cardinality(DOMAIN global_history) > 1

\* C17: in a fresh Environment that only runs time steps without a
\* conflict, every step moves current_time on by one and adds the bundle
\* of the new time, so that after k steps current_time is k and the
\* global history has exactly the keys 1..k, the pool recorded at a key
\* being no longer than the pool recorded at the next key.
C17_QuietHistory ==
    [][/\ current_time' = current_time + 1
       /\ DOMAIN global_history' = 1..current_time'
       /\ \A j \in DOMAIN global_history : global_history'[j] = global_history[j]
       /\ \A j \in 1..(current_time' - 1) :
              Len(global_history'[j].message_pool) <= Len(global_history'[j + 1].message_pool)]_vars

C17_Witness ==
    /\ last.op = "run_time_step" /\ current_time = 3
    /\ DOMAIN global_history = 1..3
    /\ Len(global_history[1].message_pool) < Len(global_history[2].message_pool)
    /\ Len(global_history[2].message_pool) = Len(global_history[3].message_pool)
    /\ ~global_conflict_raised

----------------------------------------------------------------------------
(* Local checkpoints of an agent *)

\* C21: a local_backtrack that finds a checkpoint leaves the agent's local
\* state exactly as it was when the matching checkpoint_state was called,
\* the backtrack stack included, whatever was put into the live state in
\* between; so k checkpoints followed by k backtracks lead back to the
\* state before the first of them.  No other agent is touched.
C21_LocalRoundTrip ==
    [][(last'.op = "local_backtrack" /\ last'.ok) =>
          LET a == last'.arg
          IN  /\ agents'[a].local_state = marked[a][Len(marked[a])]
              /\ Len(agents'[a].local_state.backtrack_stack) = Len(marked[a]) - 1
              /\ \A b \in DOMAIN agents : b # a => agents'[b] = agents[b]]_vars

\* the second of two backtracks has led back to the empty first state,
\* past facts put in after each checkpoint
C21_Witness ==
    /\ last.op = "local_backtrack" /\ last.ok
    /\ agents[last.arg].local_state =
           [verified_facts |-> <<>>, history |-> <<>>, backtrack_stack |-> <<>>]
    /\ \E b \in DOMAIN agents :
           b # last.arg /\ Len(agents[b].local_state.backtrack_stack) = 2
                        /\ agents[b].local_state.verified_facts # <<>>
                        /\ agents[b].local_state.backtrack_stack[2].verified_facts # <<>>
                        /\ agents[b].local_state.backtrack_stack[2].backtrack_stack # <<>>

\* C22: local_backtrack on an empty backtrack stack leaves the local state
\* as it is and raises nothing.
C22_BacktrackOnEmpty ==
    [][(last'.op = "local_backtrack" /\ ~last'.ok) =>
          /\ agents' = agents
          /\ last'.exc = ""]_vars

C22_Witness ==
    /\ last.op = "local_backtrack" /\ ~last.ok
    /\ agents[last.arg].local_state.backtrack_stack = <<>>
    /\ agents[last.arg].local_state.verified_facts # <<>>
    /\ agents[last.arg].local_state.history # <<>>

----------------------------------------------------------------------------
(* Trust scores of a GroupChatEnvironment *)

\* C23: after any sequence of update_trust_score calls with ratings 0..9
\* (and 4.5) from the initial graph, every score of the trust graph lies
\* within [0, 1], that is within 0..1000 thousandths.
C23_TrustBounded ==
    \A e \in DOMAIN trust_graph :
        \A r \in DOMAIN trust_graph[e] :
            trust_graph[e][r] >= 0 /\ trust_graph[e][r] <= TrustOne

\* a rating of 0 has been held at 0 where the sum lay below it, and
\* another score has been held at 1
C23_Witness ==
    /\ last.op = "update_trust_score"
    /\ last.arg.old + (last.arg.rating - 45) < 0
    /\ trust_graph[last.arg.evaluator][last.arg.evaluatee] = 0
    /\ \E e \in DOMAIN trust_graph : \E r \in DOMAIN trust_graph[e] :
           trust_graph[e][r] = TrustOne

C26_InitialTrust ==
    last.op = "init" =>
        /\ DOMAIN trust_graph = Names(Sys)
        /\ \A a \in Names(Sys) :
               /\ DOMAIN trust_graph[a] = Names(Sys) \ {a}
               /\ \A b \in Names(Sys) \ {a} : trust_graph[a][b] = 500

C26_Witness ==
    /\ last.op = "init"
    /\ Cardinality(Names(Sys)) = 3
    /\ Cardinality({p \in Names(Sys) \X Names(Sys) :
                       p[2] \in DOMAIN trust_graph[p[1]]}) = 6

----------------------------------------------------------------------------
(* Rounds of a GroupChatEnvironment *)

\* the start of the summary of a round
Heading(round_index) == <<"str", "Round ", ToString(round_index), " Summary:\n">>

\* the number of messages a summary describes
Described(summary) == Cardinality({i \in 1..Len(summary) : summary[i] = ": "})

\* the sends of the first i rounds
RECURSIVE SendsUpTo(_, _)
SendsUpTo(sends, i) == IF i = 0 THEN 0 ELSE sends[i] + SendsUpTo(sends, i - 1)

\* C28: a round takes a checkpoint_environment, then runs every agent's
\* step once, then resolves a raised conflict, then appends one summary,
\* which describes the pool as the resolution has left it; a discussion of
\* n rounds runs the rounds 0 to n - 1 one after another, so it appends n
\* summaries in the order of the rounds, the i-th describing the pool
\* after round i.
C28_RoundsInOrder ==
    [][/\ last'.op = "run_round" =>
            /\ discussion_history' =
                   Append(discussion_history, summary_of_round(Sys', last'.arg))
            /\ ~global_conflict_raised'
            /\ ~last'.ok =>
                   /\ current_time' = current_time
                   /\ global_history'[current_time].message_pool = message_pool.messages
                   /\ Len(message_pool'.messages) - Len(message_pool.messages) = clock' - clock
            /\ last'.ok =>
                   LET K == {k \in DOMAIN global_history : k < current_time}
                   IN  IF K = {}
                       THEN current_time' = current_time
                       ELSE /\ current_time' = Max(K)
                            /\ message_pool'.messages = global_history[Max(K)].message_pool
       /\ last'.op = "start_discussion" =>
            LET n == last'.arg.n_rounds
                h == Len(discussion_history)
            IN  /\ Len(discussion_history') = h + n
                /\ SubSeq(discussion_history', 1, h) = discussion_history
                /\ \A i \in 1..n :
                       SubSeq(discussion_history'[h + i], 1, 4) = Heading(i - 1)
                /\ n > 0 => discussion_history'[h + n] = summary_of_round(Sys', n - 1)
                /\ ~last'.ok =>
                       \A i \in 1..n :
                           Described(discussion_history'[h + i]) =
                               Len(message_pool.messages) + SendsUpTo(last'.arg.sends, i)
                /\ ~global_conflict_raised']_vars

\* in a discussion of two rounds the first round's summary describes the
\* message sent in it and the second's the pool that the resolution of the
\* second round's conflict has emptied again
C28_Witness ==
    /\ last.op = "start_discussion" /\ last.ok
    /\ last.arg.n_rounds = 2
    /\ Len(discussion_history) = 2
    /\ Described(discussion_history[1]) = 1
    /\ Described(discussion_history[2]) = 0
    /\ LiveMessages = <<>>
    /\ current_time < last.at

----------------------------------------------------------------------------
(* Messages of an unexpected shape *)

\* C30: the receive_message of a role agent never fails on a message whose
\* type it does not handle or whose content has another shape than the
\* type's handler reads (plain text for a record, a record without the
\* field): the message is ignored, nothing is raised, nothing is sent and
\* no local state changes.
C30_MalformedIgnored ==
    [][last'.op = "send_message" =>
          /\ last'.exc = ""
          /\ clock' = clock + 1
          /\ Len(delivered') = 1
          /\ \A a \in DOMAIN agents : agents'[a].local_state = agents[a].local_state]_vars

----------------------------------------------------------------------------
(* The live messages between rollbacks *)

\* C31: every send appends its message to the live messages once, and a
\* call that holds no revert (a send, a checkpoint, a raised flag, a time
\* step without a conflict) leaves the earlier live messages as a prefix
\* of the later ones: as many messages are appended as sends were made,
\* in the order of the sends.
C31_AppendOnly ==
    [][(\/ last'.op \in {"send_message", "checkpoint_environment", "raise_conflict"}
        \/ last'.op = "run_time_step" /\ ~last'.ok) =>
          /\ Len(LiveMessages') = Len(LiveMessages) + (clock' - clock)
          /\ SubSeq(LiveMessages', 1, Len(LiveMessages)) = LiveMessages
          /\ \A i \in 1..(clock' - clock) :
                 LiveMessages'[Len(LiveMessages) + i].msg_id = clock + i - 1
          /\ last'.op = "send_message" => clock' > clock]_vars

\* a send has appended its message behind the one an agent's step sent
C31_Witness ==
    /\ last.op = "send_message"
    /\ Len(LiveMessages) = 2
    /\ LiveMessages[1].content = Str("step")
    /\ LiveMessages[2].content = Str("q")
    /\ current_time \in DOMAIN global_history

\* C32: prune_snapshots_after(T) deletes the stored snapshots whose key
\* is greater than T and no other: the snapshots at keys up to T and the
\* live messages stay as they are.
C32_PruneExact ==
    [][last'.op = "prune_snapshots_after" =>
          /\ DOMAIN Snapshots' = {k \in DOMAIN Snapshots : k <= last'.arg}
          /\ \A k \in DOMAIN Snapshots' : Snapshots'[k] = Snapshots[k]
          /\ LiveMessages' = LiveMessages]_vars

\* the snapshots at the keys 0 and 1 are left after prune_snapshots_after(1)
C32_Witness ==
    /\ last.op = "prune_snapshots_after" /\ last.arg = 1
    /\ DOMAIN Snapshots = {0, 1}
    /\ Snapshots[0] = <<>>
    /\ Snapshots[1] # <<>>
    /\ Len(LiveMessages) > Len(Snapshots[1])

----------------------------------------------------------------------------
(* Sends made from inside a delivery *)

\* C33: every agent is delivered the messages of a send_message call in
\* the order in which they were appended to the pool, also when an agent's
\* receive_message reacts to a broadcast with a broadcast of its own
\* while the first one is still being delivered to the agents after it.
C33_DeliveryInPoolOrder ==
    [][last'.op = "send_message" =>
          \A i, j \in 1..Len(delivered') :
              (i < j /\ delivered'[i].to = delivered'[j].to) =>
                  \E a, b \in New(message_pool'.messages, clock) :
                      /\ a <= b
                      /\ i \in Deliveries(delivered', delivered'[i].to,
                                          message_pool'.messages[a])
                      /\ j \in Deliveries(delivered', delivered'[j].to,
                                          message_pool'.messages[b])]_vars

----------------------------------------------------------------------------
(* A conflict raised in a round *)

\* C34: when a conflict is raised during a round, the round's resolution
\* puts the pool and every agent's local state back to the bundle taken
\* at the start of that round, so the messages sent during the round are
\* gone when the round's summary is made, also in a round at time 0.
C34_RoundRestoresItsStart ==
    [][(last'.op = "run_round" /\ last'.ok) =>
          /\ message_pool'.messages = message_pool.messages
          /\ \A a \in DOMAIN agents : agents'[a].local_state = agents[a].local_state
          /\ Described(discussion_history'[Len(discussion_history')]) =
                 Len(message_pool.messages)]_vars

----------------------------------------------------------------------------
(* The global history and the backtrack stacks *)

\* C35: in every state every key of global_history lies between 0 and
\* current_time, and current_time is never negative.
C35_KeysWithinTime ==
    /\ current_time >= 0
    /\ \A k \in DOMAIN global_history : 0 <= k /\ k <= current_time

\* a revert from time 2 to time 0 has left the key 0 alone
C35_Witness ==
    /\ last.op = "revert_environment" /\ last.ok
    /\ last.at = 2 /\ current_time = 0
    /\ DOMAIN global_history = {0}
    /\ discussion_history # <<>>

\* C36: a revert_environment(T) that finds the bundle sets current_time to
\* T and keeps the bundles at T and below as they are; a second
\* revert_environment(T) right after it changes nothing, and a time step
\* without a conflict right after it stores its bundle under T + 1.
C36_RevertIdempotent ==
    [][/\ (last'.op = "revert_environment" /\ last'.ok) =>
            /\ current_time' = last'.arg
            /\ \A k \in DOMAIN global_history :
                   k <= last'.arg => /\ k \in DOMAIN global_history'
                                     /\ global_history'[k] = global_history[k]
       /\ (/\ last.op = "revert_environment" /\ last.ok
           /\ last'.op = "revert_environment" /\ last'.arg = last.arg) =>
            /\ last'.ok
            /\ message_pool' = message_pool /\ agents' = agents
            /\ current_time' = current_time /\ global_history' = global_history
       /\ (/\ last.op = "revert_environment" /\ last.ok
           /\ last'.op = "run_time_step" /\ ~last'.ok) =>
            /\ current_time' = last.arg + 1
            /\ DOMAIN global_history' = DOMAIN global_history \cup {last.arg + 1}
            /\ global_history'[last.arg + 1].message_pool = message_pool.messages]_vars

\* a revert_environment(1) called at time 1 has found the bundles at 0 and
\* 1 and a pool that holds what the bundle at 1 holds
C36_Witness ==
    /\ last.op = "revert_environment" /\ last.ok
    /\ last.arg = 1 /\ last.at = 1 /\ current_time = 1
    /\ DOMAIN global_history = {0, 1}
    /\ LiveMessages # <<>>
    /\ LiveMessages = global_history[1].message_pool
    /\ global_history[0].message_pool = <<>>

\* C37: the i-th entry of an agent's backtrack stack, counted from 0, is
\* a local state whose own backtrack stack has i entries, in every state
\* that checkpoint_state, local_backtrack, checkpoint_environment and
\* revert_environment lead to; so a local_backtrack that finds an entry
\* makes the stack one entry shorter.
C37_StackShape ==
    [][/\ \A a \in DOMAIN agents' :
              LET stack == agents'[a].local_state.backtrack_stack
              IN  \A i \in 1..Len(stack) : Len(stack[i].backtrack_stack) = i - 1
       /\ (last'.op = "local_backtrack" /\ last'.ok) =>
              Len(agents'[last'.arg].local_state.backtrack_stack) =
                  Len(agents[last'.arg].local_state.backtrack_stack) - 1]_vars

\* a revert_environment has put back a stack of two entries and one of
\* one entry
C37_Witness ==
    /\ last.op = "revert_environment" /\ last.ok
    /\ Len(agents[people[1]].local_state.backtrack_stack) = 2
    /\ Len(agents[people[1]].local_state.backtrack_stack[2].backtrack_stack) = 1
    /\ Len(agents[people[2]].local_state.backtrack_stack) = 1

----------------------------------------------------------------------------
(* A receiver that is not registered *)

\* C38: a send_message to a name under which no agent is registered
\* appends the message to the pool, calls receive_message on no agent,
\* raises nothing and leaves every agent as it is.
C38_StrayRecorded ==
    [][last'.op = "send_message" =>
          LET e == last'.arg
              m == LiveMessages'[Len(LiveMessages')]
          IN  /\ LiveMessages' = Append(LiveMessages, m)
              /\ m.send_from = e.sender /\ m.send_to = e.receiver
              /\ m.content = e.content /\ m.msg_id = clock
              /\ delivered' = <<>>
              /\ last'.exc = ""
              /\ agents' = agents]_vars

\* evidence sent to a name that differs from the VerifierAgent's in case
C38_Witness ==
    /\ last.op = "send_message" /\ last.exc = ""
    /\ last.arg.receiver = Str("verifieragent")
    /\ IsDict(last.arg.content)
    /\ Len(LiveMessages) = 2
    /\ LiveMessages[2].send_to = Str("verifieragent")
    /\ delivered = <<>>
    /\ agents["VerifierAgent"].local_state.verified_facts = <<>>

----------------------------------------------------------------------------
(* The VerifierAgent and its conflicts *)

\* the positions of the log of deliveries that hold a message of a type
OfType(log, msg_type) == {i \in 1..Len(log) : log[i].msg.msg_type = msg_type}

\* C39: evidence that repeats a verified fact, or itself, leaves the local
\* state of the VerifierAgent as it was and the verified facts without a
\* repeated entry; the VerifierAgent then sends one CONFLICT to the
\* SupervisorAgent, which broadcasts one BACKTRACK to the five other
\* agents.  Evidence without a repetition is appended to the verified facts
\* and forwarded as one ASSERT to the AnswerAssemblerAgent.
C39_ConflictEscalation ==
    [][last'.op = "send_message" /\ last'.arg.receiver = Str("VerifierAgent") =>
          LET before    == agents["VerifierAgent"].local_state
              after     == agents'["VerifierAgent"].local_state
              evidence  == Get(last'.arg.content, "evidence_list", EmptyList)
              log       == delivered'
              conflicts == OfType(log, "CONFLICT")
              backs     == OfType(log, "BACKTRACK")
              asserts   == OfType(log, "ASSERT")
              others    == Names(Sys) \ {"SupervisorAgent"}
          IN  /\ last'.exc = ""
              /\ log[1].to = "VerifierAgent"
              /\ ~Repeats(after.verified_facts)
              /\ IF Repeats(before.verified_facts \o Items(evidence))
                 THEN /\ after = before
                      /\ conflicts = {2}
                      /\ log[2].to = "SupervisorAgent"
                      /\ log[2].msg.sender = Str("VerifierAgent")
                      /\ backs = 3..Len(log)
                      /\ asserts = {}
                      /\ \A i \in backs : /\ log[i].msg.sender = Str("SupervisorAgent")
                                           /\ log[i].msg.receiver = ALL
                      /\ \A a \in others : Cardinality({i \in backs : log[i].to = a}) = 1
                      /\ \A i \in backs : log[i].to \in others
                      /\ clock' = clock + 3
                 ELSE /\ after.verified_facts = before.verified_facts \o Items(evidence)
                      /\ conflicts = {} /\ backs = {}
                      /\ asserts = {2}
                      /\ log[2].to = "AnswerAssemblerAgent"
                      /\ log[2].msg.sender = Str("VerifierAgent")
                      /\ log[2].msg.content = Dict(<< <<"verified_facts", evidence>> >>)]_vars

\* evidence that is known already, after evidence that was new
C39_Witness ==
    /\ last.op = "send_message" /\ last.exc = ""
    /\ last.arg.content = Dict(<< <<"evidence_list", Lst(<<Str("e")>>)>> >>)
    /\ agents["VerifierAgent"].local_state.verified_facts = <<Str("e")>>
    /\ Len(agents["VerifierAgent"].local_state.backtrack_stack) = 1
    /\ Len(delivered) = 7
    /\ delivered[2].msg.msg_type = "CONFLICT"
    /\ delivered[7].msg.msg_type = "BACKTRACK"

----------------------------------------------------------------------------
(* The cascade of a question *)

\* the messages of msgs sent since the clock showed since, by one sender
Cascade(msgs, since, sender) ==
    {k \in New(msgs, since) : msgs[k].send_from = Str(sender)}

\* C40: with the six role agents registered every send_message returns
\* after a bounded cascade, in which no agent sends more messages than a
\* question has sub-questions; a question sent to the
\* QuestionDecomposerAgent of a fresh system causes exactly three ASSERTs
\* with a sub-question, and ends with the one delivery made to the
\* SupervisorAgent, an INFORM with the final answer.
C40_CascadeFinite ==
    [][last'.op = "send_message" =>
          LET msgs  == message_pool'.messages
              log   == delivered'
              parts == decompose_question(Str("q"))
              fresh == /\ clock = 0
                       /\ \A a \in DOMAIN agents : agents[a] = BaseAgent(agents[a].cls)
              subs  == {i \in OfType(log, "ASSERT") :
                           HasKey(log[i].msg.content, "sub_question")}
              finals == {i \in 1..Len(log) : log[i].to = "SupervisorAgent"}
          IN  /\ last'.exc = ""
              /\ clock' - clock <= 1 + 4 * Len(parts)
              /\ \A a \in DOMAIN agents :
                     Cardinality(Cascade(msgs, clock, a)) <= Len(parts)
              /\ (/\ fresh
                  /\ log[1].msg.receiver = Str("QuestionDecomposerAgent")
                  /\ log[1].msg.msg_type = "INFORM") =>
                     /\ Cardinality(subs) = 3
                     /\ \A i \in subs : /\ log[i].to = "RetrieverAgent"
                                         /\ log[i].msg.sender = Str("QuestionDecomposerAgent")
                     /\ {Get(log[i].msg.content, "sub_question", None) : i \in subs}
                            = {parts[j] : j \in 1..Len(parts)}
                     /\ finals = {Len(log)}
                     /\ log[Len(log)].msg.msg_type = "INFORM"
                     /\ log[Len(log)].msg.sender = Str("AnswerAssemblerAgent")
                     /\ HasKey(log[Len(log)].msg.content, "final_answer")
                     /\ OfType(log, "CONFLICT") \cup OfType(log, "BACKTRACK") = {}]_vars

\* the first message of the system was a question, and its cascade of
\* eleven messages is over
C40_Witness ==
    /\ last.op = "send_message" /\ last.exc = ""
    /\ clock = 11
    /\ LiveMessages[1].send_to = Str("QuestionDecomposerAgent")
    /\ Cardinality(OfType(delivered, "ASSERT")) = 6
    /\ Len(agents["AnswerAssemblerAgent"].partial_answers) = 3
    /\ Len(agents["VerifierAgent"].local_state.verified_facts) = 3
    /\ delivered[Len(delivered)].msg.sender = Str("AnswerAssemblerAgent")
====
